---- MODULE Spec2Model ----
(***************************************************************************)
(* Model of the student-statistics scripts: the paginated readers, the     *)
(* per-record classifiers, the grouped aggregators and the tabular writer  *)
(* of college_counts.py, counts.py, college_skill.py, skill.py,            *)
(* skill_year.py, no_skill.py, education_count.py and student_education.py,*)
(* the one-shot exports of linkedin.py and no_skill_resume.py, the skill   *)
(* importer of skill_from_resume.py, the store client every run creates   *)
(* and closes, process_csv of extract_skill.py and extract_education.py    *)
(* with the parser's answers, and the aggregation pipeline of              *)
(* college_with_missing_grad.py.                                           *)
(*                                                                         *)
(* Python values.  A field of a student document is a tagged value         *)
(*   [k |-> "absent"]  the key is not in the document                      *)
(*   [k |-> "null"]    the key is present with value None                  *)
(*   [k |-> "list"]    the key holds the list v                            *)
(* Scalar fields of an education entry are strings; "<absent>" stands for  *)
(* a missing key or None (dict.get returns None for both).  end_year is a  *)
(* tagged number [t, n]: t = "int", "str" (a year kept as text) or "none". *)
(***************************************************************************)
EXTENDS Integers, Sequences, FiniteSets, TLC

VARIABLES
    script,           \* which script's main() this run executes
    store,            \* the students collection, in natural (stored) order
    resumes,          \* user ids that have a document in the resume collection
                      \* (no_skill_resume: the user_id of each document of
                      \* the resume collection, in natural order)
    batch_size,       \* batch_size / BATCH_SIZE of the running script
    pc,               \* position of main(): "connect", "start", "scan", ...,
                      \* "done" (try block left), "exit" (finally clause run)
    total_documents,  \* result of count_documents at the start of the run
    batch_num,        \* loop variable of the skip/limit loop; batches flushed
    cursor_pos,       \* number of documents already taken from the cursor
    current_batch,    \* ids buffered by a cursor loop, not yet flushed
    processed_count,  \* processed_count / processed_records
    all_results,      \* list of classifications gathered by the scan
    classified,       \* ids handed to the per-record classifier, in call order
    acc,              \* the script's counters (stats, skill_categories, ...)
    summary_data,     \* aggregate rows built by the college reports
    output,           \* rows written to the report's CSV file
    output_written,   \* TRUE once the CSV file has been written
    error,            \* exception caught by main()'s except clause, or "none"
    client,           \* the MongoClient of the run: its state, and whether the
                      \* name "client" is bound in the frame of main()
    live,             \* ids of the documents in the collection right now, in
                      \* natural order (store is the collection at the start)
    changes,          \* writes other processes made to the collection so far
    fetching,         \* page numbers whose find() has been issued and whose
                      \* documents have not been handed to process_batch yet
    page,             \* ids returned by the find() in flight
    acc_writers,      \* threads that have modified all_results/processed_count
    df,               \* rows of combined_skill_data.csv read by the importer
    run,              \* 1 in the first run of the script, 2 in a second one
    first_output      \* what the first run left behind, once a second began

vars == <<script, store, resumes, batch_size, pc, total_documents, batch_num,
          cursor_pos, current_batch, processed_count, all_results, classified,
          acc, summary_data, output, output_written, error, client, live,
          changes, fetching, page, acc_writers, df, run, first_output>>

inputs == <<script, store, resumes, batch_size>>

\* what the steps of a report leave alone once the client is connected
context == <<client, live, changes, fetching, page, acc_writers, df, run,
             first_output>>

(***************************************************************************)
(* Bounds of the model                                                     *)
(***************************************************************************)
MaxRecords == 3      \* documents in a multi-document store
MaxBatch == 2        \* page sizes 1..MaxBatch
MaxEdu == 2          \* education entries of one document
MaxSkills == 12      \* skill entries of one document
ResumeBatch == 2     \* slice length of process_resumes, scaled down
MaxChanges == 1      \* writes by other processes during one scan
MaxRows == 2         \* rows of a CSV file of several rows
MaxChars == 4        \* characters of a skills cell
MaxRerun == 2        \* documents of a store a report is run on twice

(***************************************************************************)
(* Python helpers                                                          *)
(***************************************************************************)
Absent == [k |-> "absent", v |-> <<>>]
Null == [k |-> "null", v |-> <<>>]
List(s) == [k |-> "list", v |-> s]

\* student.get(key): None when the key is missing
get(student, key) ==
    IF student[key].k = "absent" THEN Null ELSE student[key]

\* student.get(key, []): the default only replaces a missing key, not a None
get_default(student, key) ==
    IF student[key].k = "absent" THEN List(<<>>) ELSE student[key]

\* truth value of a field value: None and [] are falsy
bool(x) == x.k = "list" /\ Len(x.v) > 0

\* len(x) raises TypeError and "for e in x" raises TypeError when x is None
iterable(x) == x.k = "list"

\* x is True: only the boolean true
is_true(x) == x = "True"

\* truth value of a scalar: True and non-zero numbers
truthy(x) == x \in {"True", "1"}

\* truth value of a name: None and "" are falsy
nonempty(s) == s \notin {"<absent>", ""}

NoYear == [t |-> "none", n |-> 0]
IntYear(y) == [t |-> "int", n |-> y]
StrYear(y) == [t |-> "str", n |-> y]

\* end_year == y for an int literal y: a str never equals an int
year_eq(e, y) == e.t = "int" /\ e.n = y

Range(s) == {s[i] : i \in 1..Len(s)}

Min(a, b) == IF a < b THEN a ELSE b

SeqsUpTo(S, n) == UNION {[1..m -> S] : m \in 0..n}

(***************************************************************************)
(* Per-record classifiers                                                  *)
(***************************************************************************)
\* bool(student.get(key) and len(student.get(key, [])) > 0)
has_items(student, key) ==
    IF bool(get(student, key))
    THEN Len(get_default(student, key).v) > 0
    ELSE FALSE

\* the for loop of get_college_name from entry i on: first entry that is
\* primary (is True) and has a truthy college_name
RECURSIVE scan_college(_, _)
scan_college(records, i) ==
    IF i > Len(records) THEN "Unknown"
    ELSE IF is_true(records[i].is_primary) /\ nonempty(records[i].college_name)
         THEN records[i].college_name
         ELSE scan_college(records, i + 1)

\* a version that accepts any truthy is_primary (1 as well as True)
get_college_name_truthy(student) ==
    LET recs == get_default(student, "education_records").v
        hits == {i \in 1..Len(recs) :
                    truthy(recs[i].is_primary) /\ nonempty(recs[i].college_name)}
    IN  IF bool(get(student, "education_records")) /\ hits # {}
        THEN recs[CHOOSE i \in hits : \A j \in hits : i <= j].college_name
        ELSE "Unknown"

\* a version that keeps scanning and returns the last qualifying entry
get_college_name_last(student) ==
    LET recs == get_default(student, "education_records").v
        hits == {i \in 1..Len(recs) :
                    is_true(recs[i].is_primary) /\ nonempty(recs[i].college_name)}
    IN  IF bool(get(student, "education_records")) /\ hits # {}
        THEN recs[CHOOSE i \in hits : \A j \in hits : i >= j].college_name
        ELSE "Unknown"

get_college_name(student) ==
    IF bool(get(student, "education_records"))
    THEN scan_college(get_default(student, "education_records").v, 1)
    ELSE "Unknown"

\* a version of the grade check that accepts any truthy is_primary
has_performance_truthy(student) ==
    /\ bool(get(student, "education_records"))
    /\ \E i \in 1..Len(get_default(student, "education_records").v) :
          LET record == get_default(student, "education_records").v[i]
          IN  truthy(record.is_primary) /\ record.performance # "<absent>"

\* the has_performance loop shared by college_counts and counts
has_performance(student) ==
    /\ bool(get(student, "education_records"))
    /\ \E i \in 1..Len(get_default(student, "education_records").v) :
          LET record == get_default(student, "education_records").v[i]
          IN  is_true(record.is_primary) /\ record.performance # "<absent>"

\* a version that forgets the awards field
cc_analyze_no_awards(student) ==
    [college_name |-> get_college_name(student),
     has_projects |-> has_items(student, "projects"),
     has_experience |-> has_items(student, "work_experiences"),
     has_achievements |-> has_items(student, "achievements"),
     has_skills |-> has_items(student, "skills"),
     has_grade |-> has_performance(student)]

\* college_counts.analyze_student_record
cc_analyze_student_record(student) ==
    [college_name |-> get_college_name(student),
     has_projects |-> has_items(student, "projects"),
     has_experience |-> has_items(student, "work_experiences"),
     has_achievements |-> has_items(student, "achievements")
                            \/ has_items(student, "awards"),
     has_skills |-> has_items(student, "skills"),
     has_grade |-> has_performance(student)]

have(b) == IF b THEN "have" ELSE "have_not"

\* counts.analyze_student_record
counts_analyze_student_record(student) ==
    [projects |-> have(has_items(student, "projects")),
     work_experience |-> have(has_items(student, "work_experiences")),
     achievements |-> have(has_items(student, "achievements")
                             \/ has_items(student, "awards")),
     skills |-> have(has_items(student, "skills")),
     grade |-> have(has_performance(student))]

\* len(skills) if skills else 0, with skills = student.get('skills', [])
get_skills_count(student) ==
    IF bool(get_default(student, "skills"))
    THEN Len(get_default(student, "skills").v)
    ELSE 0

skills_categories ==
    <<"0 skills", "1-3 skills", "4-6 skills", "7-10 skills", "10+ skills">>

\* a banding whose third band ends one too early
cs_skills_category_off(skills_count) ==
    IF skills_count = 0 THEN "0 skills"
    ELSE IF 1 <= skills_count /\ skills_count <= 3 THEN "1-3 skills"
    ELSE IF 4 <= skills_count /\ skills_count < 6 THEN "4-6 skills"
    ELSE IF 7 <= skills_count /\ skills_count <= 10 THEN "7-10 skills"
    ELSE "10+ skills"

\* the if/elif chain of college_skill.analyze_student_record
cs_skills_category(skills_count) ==
    IF skills_count = 0 THEN "0 skills"
    ELSE IF 1 <= skills_count /\ skills_count <= 3 THEN "1-3 skills"
    ELSE IF 4 <= skills_count /\ skills_count <= 6 THEN "4-6 skills"
    ELSE IF 7 <= skills_count /\ skills_count <= 10 THEN "7-10 skills"
    ELSE "10+ skills"

\* the if/elif chain of skill.main
skill_category(skills_count) ==
    IF skills_count = 0 THEN "0 skills"
    ELSE IF 1 <= skills_count /\ skills_count <= 3 THEN "1-3 skills"
    ELSE IF 4 <= skills_count /\ skills_count <= 6 THEN "4-6 skills"
    ELSE IF 7 <= skills_count /\ skills_count <= 10 THEN "7-10 skills"
    ELSE "10+ skills"

\* the if/elif chain of skill_year.main
sy_skill_category(skills_count) ==
    IF skills_count = 0 THEN "0 skills"
    ELSE IF 1 <= skills_count /\ skills_count <= 3 THEN "1-3 skills"
    ELSE IF 4 <= skills_count /\ skills_count <= 6 THEN "4-6 skills"
    ELSE IF 7 <= skills_count /\ skills_count <= 10 THEN "7-10 skills"
    ELSE "10+ skills"

\* college_skill.analyze_student_record
cs_analyze_student_record(student) ==
    [college_name |-> get_college_name(student),
     skills_count |-> get_skills_count(student),
     skills_category |-> cs_skills_category(get_skills_count(student))]

\* "for edu_record in student.get('education_records', [])" raises TypeError
\* when the field is present with value None
edu_loop_raises(student) == ~iterable(get_default(student, "education_records"))

edu_entries(student) == get_default(student, "education_records").v

\* entries the loops of education_count, skill_year and student_education
\* treat as primary: edu_record.get("is_primary", False) is truthy
primary_entries(student) ==
    {i \in 1..Len(edu_entries(student)) : truthy(edu_entries(student)[i].is_primary)}

Count(S) == Cardinality(S)

\* the elif of education_count.process_batch that feeds local_special_count
ec_is_special(end_year) ==
    \/ end_year.t = "none"
    \/ end_year.t # "int"
    \/ end_year.n < 2023
    \/ end_year.n > 2027

\* education_count.process_batch for one student: what it adds to the
\* batch's counters
ec_classify(student) ==
    LET es == edu_entries(student)
        prim == primary_entries(student)
        is26 == {i \in prim : year_eq(es[i].end_year, 2026)}
        is27 == {i \in prim : ~year_eq(es[i].end_year, 2026)
                              /\ year_eq(es[i].end_year, 2027)}
        spec == {i \in prim : ~year_eq(es[i].end_year, 2026)
                              /\ ~year_eq(es[i].end_year, 2027)
                              /\ ec_is_special(es[i].end_year)}
    IN  [y2026 |-> Count(is26),
         y2027 |-> Count(is27),
         special |-> Count(spec),
         no_primary |-> IF prim = {} /\ bool(get(student, "education_records"))
                        THEN 1 ELSE 0,
         primary |-> Count(prim)]

\* the education loop of skill_year.main for one student
sy_classify(student) ==
    LET es == edu_entries(student)
        prim == primary_entries(student)
    IN  [category |-> sy_skill_category(get_skills_count(student)),
         g2026 |-> Count({i \in prim : year_eq(es[i].end_year, 2026)}),
         g2027 |-> Count({i \in prim : ~year_eq(es[i].end_year, 2026)
                                       /\ year_eq(es[i].end_year, 2027)})]

\* student_education.process_education_batch for one student
se_classify(student) ==
    LET es == edu_entries(student)
        prim == primary_entries(student)
    IN  IF prim = {} THEN "no_primary"
        ELSE IF \A i \in prim : es[i].end_year.t = "none" THEN "no_end_year"
        ELSE "ok"

\* no_skill.process_batch for one student
ns_classify(student, id) ==
    LET has_no_skills == ~bool(get(student, "skills"))
                         \/ Len(get_default(student, "skills").v) = 0
    IN  [education |-> IF has_no_skills /\ has_items(student, "education_records")
                       THEN 1 ELSE 0,
         work_exp |-> IF has_no_skills /\ has_items(student, "work_experiences")
                      THEN 1 ELSE 0,
         projects |-> IF has_no_skills /\ has_items(student, "projects")
                      THEN 1 ELSE 0,
         resume |-> IF has_no_skills /\ id \in resumes THEN 1 ELSE 0]

(***************************************************************************)
(* Inputs: the documents a run may find in the store                       *)
(***************************************************************************)
Entry(p, c, g, y) ==
    [is_primary |-> p, college_name |-> c, performance |-> g, end_year |-> y]

\* contact_detail.linkedin_url is "<absent>" when contact_detail or the key
\* is missing, "<null>" when it is None, else the string
Rec(edu, skills, projects, work, ach, awards) ==
    [education_records |-> edu, skills |-> skills, projects |-> projects,
     work_experiences |-> work, achievements |-> ach, awards |-> awards,
     linkedin_url |-> "<absent>"]

Blank == Rec(Absent, Absent, Absent, Absent, Absent, Absent)

Skills(n) == List([i \in 1..n |-> "s"])

\* entries that vary in what the college and grade checks read
CollegeEntries ==
    {Entry(p, c, g, NoYear) : p \in {"True", "False", "1"},
                              c \in {"<absent>", "", "A", "Unknown"},
                              g \in {"<absent>", "8.5"}}

\* entries that vary in what the graduation-year loops read
YearEntries ==
    {Entry(p, "<absent>", "<absent>", y) :
        p \in {"True", "False"},
        y \in {NoYear, IntYear(2022), IntYear(2024), IntYear(2026),
               IntYear(2027), IntYear(2028), StrYear(2026)}}

EduValues(E) == {Absent, Null} \cup {List(s) : s \in SeqsUpTo(E, MaxEdu)}

CollectionValues == {Absent, Null, List(<<>>), List(<<"x">>)}

SkillValues == {Absent, Null} \cup {Skills(n) : n \in 0..MaxSkills}

CollegeRecords ==
    {[Blank EXCEPT !.education_records = e] : e \in EduValues(CollegeEntries)}

YearRecords ==
    {[Blank EXCEPT !.education_records = e] : e \in EduValues(YearEntries)}

SkillRecords == {[Blank EXCEPT !.skills = s] : s \in SkillValues}

CollectionRecords ==
    {Rec(Absent, Absent, p, w, a, d) :
        p \in CollectionValues, w \in CollectionValues,
        a \in CollectionValues, d \in CollectionValues}

\* a few whole documents, for stores of several documents
SampleRecords ==
    { Blank,
      Rec(Null, Null, List(<<>>), Null, List(<<>>), Absent),
      Rec(List(<<Entry("True", "A", "8.5", IntYear(2026))>>), Skills(2),
          List(<<"x">>), Absent, List(<<"x">>), Absent),
      Rec(List(<<Entry("False", "A", "8.5", IntYear(2027)),
                 Entry("True", "B", "<absent>", IntYear(2024))>>), Skills(11),
          Absent, List(<<"x">>), Absent, List(<<"x">>)),
      Rec(List(<<Entry("True", "", "<absent>", NoYear),
                 Entry("True", "A", "<absent>", IntYear(2027))>>), List(<<>>),
          List(<<"x">>), List(<<"x">>), Absent, Absent) }

\* documents that vary in what linkedin.query reads
LinkedinRecords ==
    {[Blank EXCEPT !.linkedin_url = u, !.education_records = e] :
        u \in {"<absent>", "<null>", "", "in/a"},
        e \in {Absent, Null, List(<<>>),
               List(<<Entry("True", "A", "8.5", IntYear(2026))>>)}}

LinkedinSamples ==
    {[Blank EXCEPT !.linkedin_url = u, !.education_records = e] :
        u \in {"", "in/a"}, e \in {Absent, List(<<>>)}}

\* characters of a skills cell: an upper-case letter, two lower-case
\* letters, the delimiter and white space
Chars == {"A", "a", "b", ",", " "}

\* a cell of the skills column as pandas gives it: NaN for an empty cell, a
\* number when the column parsed as numeric, else the text
NaN == [t |-> "nan", s |-> <<>>]
Num == [t |-> "num", s |-> <<>>]
Str(s) == [t |-> "str", s |-> s]

\* a cell of the student_id column: 24 hex digits naming document n (none
\* when n is past the end of the store), or something ObjectId() rejects
Oid(n) == [kind |-> "objectid", n |-> n]
Malformed == [kind |-> "malformed", n |-> 0]

Row(id, cell) == [student_id |-> id, skills |-> cell]

\* an entry of a stored skills list
SkillEntry(name, rating) ==
    [name |-> name, rating |-> rating, composite |-> "null", versions |-> <<>>]

\* documents of the store the importer updates
ImportRecords ==
    {[Blank EXCEPT !.skills = sk, !.projects = List(<<"x">>)] :
        sk \in {Absent,
                List(<<SkillEntry(<<"a">>, 2)>>),
                List(<<SkillEntry(<<"a">>, 5), SkillEntry(<<"b", "b">>, 2)>>)}}

ImportStores == {<<r1, r2>> : r1 \in ImportRecords, r2 \in ImportRecords}

\* rows for CSV files of several rows
SampleRows ==
    {Row(Oid(1), Str(<<"a">>)), Row(Oid(1), Str(<<"A", ",", "a">>)),
     Row(Oid(2), Str(<<"a">>)), Row(Oid(2), Str(<<"b", ",", " ", "a">>)),
     Row(Oid(3), Str(<<"a">>)), Row(Malformed, Str(<<"a">>)),
     Row(Oid(1), Num), Row(Oid(2), NaN), Row(Malformed, Str(<<" ">>))}

\* CSV files of one row with every text of up to MaxChars characters (an
\* empty cell is read as NaN, never as "")
TextFrames ==
    {<<Row(Oid(1), Str(t))>> : t \in SeqsUpTo(Chars, MaxChars) \ {<<>>}}

\* CSV files of sample rows
DataFrames == SeqsUpTo(SampleRows, MaxRows)

\* Python's None, and a key that a dict of the parser's answer lacks
PyNone == [t |-> "none", s |-> <<>>]
Missing == [t |-> "absent", s |-> <<>>]
PyInt(n) == [t |-> "num", s |-> <<n>>]

\* a row of the input CSV of process_csv: resume_link is NaN for an empty
\* cell; "u" is a link to a resume, "r" a link whose resume may be any of
\* the resumes of the model
LinkRow(link) == [resume_link |-> link]

InputFrames ==
    SeqsUpTo({LinkRow(l) : l \in {NaN, Str(<<"u">>)}}, MaxRows)

RichFrames == {<<LinkRow(Str(<<"r">>))>>}

\* the 'res' object of the resume parser: the keys the extractors read
Parsed(skill, projects, degree) ==
    [skill |-> skill, projects |-> projects, degree |-> degree]

Project(technologies_used) == [technologies_used |-> technologies_used]

\* the {} that fetch_and_parse_resume returns for a failure
EmptyParse == Parsed(Absent, Absent, Absent)

\* skill lists of one or two names with up to MaxChars - 1 characters in all
NameLists ==
    {<<>>} \cup
    {<<t>> : t \in SeqsUpTo(Chars, MaxChars - 1)} \cup
    UNION {{<<SubSeq(t, 1, k), SubSeq(t, k + 1, Len(t))>> : k \in 0..Len(t)} :
              t \in SeqsUpTo(Chars, MaxChars - 1)}

\* a resume with skills and one without, for files of several rows
SampleSkillResumes ==
    {Parsed(List(<<<<"A">>, <<"a", ",">>>>), Absent, Absent),
     Parsed(Null, List(<<Project(Null)>>), Absent)}

\* resumes that vary in the skills section and in the project technologies
SkillResumes ==
    {Parsed(List(names), Absent, Absent) : names \in NameLists} \cup
    {Parsed(sk, List(<<Project(List(<<<<"a">>>>)),
                       Project(List(<<tech, <<"b">>>>))>>), Absent) :
        sk \in {Absent, Null, List(<<<<"A">>>>)},
        tech \in SeqsUpTo(Chars, 2)} \cup
    {Parsed(Absent, Null, Absent), Parsed(List(<<>>), List(<<>>), Absent),
     Parsed(List(<<<<"b">>>>), List(<<Project(Absent), Project(Null)>>),
            Absent)}

\* entries of the degree list: {} (no key at all), a degree with its
\* institution, and a degree without one; the year is missing, null or
\* a number
DegreeEntries ==
    {[degree_name |-> d[1], institution |-> d[2], year |-> y] :
        d \in {<<Missing, Missing>>, <<Str(<<"B">>), Str(<<"X">>)>>,
               <<Str(<<"M">>), Missing>>},
        y \in {Missing, PyNone, PyInt(2019), PyInt(2021)}}

SampleDegreeResumes ==
    {Parsed(Absent, Absent,
            List(<<[degree_name |-> Str(<<"B">>), institution |-> Str(<<"X">>),
                    year |-> PyInt(2021)]>>)),
     Parsed(Absent, Absent, List(<<>>))}

DegreeResumes ==
    {Parsed(Absent, Absent, d) :
        d \in {Absent, Null} \cup
              {List(e) : e \in SeqsUpTo(DegreeEntries, MaxEdu)}}

\* an education entry as the missing-graduation-year pipeline reads it;
\* a text field is "<absent>" when the key is missing, "<null>" when None
GradEntry(p, id, name, registered, y) ==
    [is_primary |-> p, college_id |-> id, college_name |-> name,
     is_college_registered |-> registered, end_year |-> y]

GradEntries ==
    {GradEntry(p, c[1], c[2], c[3], y) :
        p \in {"True", "False"},
        c \in {<<"c1", "A", "True">>, <<"c2", "B", "False">>,
               <<"c1", "A", "<absent>">>},
        y \in {"<absent>", "<null>", "", "2026"}}

\* documents that vary in every field the pipeline reads
GradRecords ==
    {[Blank EXCEPT !.education_records = e] : e \in EduValues(GradEntries)}

\* two documents of the same college, for stores of two documents
GradStores ==
    {<<[Blank EXCEPT !.education_records = List(<<e1>>)],
       [Blank EXCEPT !.education_records = List(<<e2>>)]>> :
        e1 \in {GradEntry("True", "c1", "A", "True", "")},
        e2 \in {GradEntry("True", c[1], c[2], c[3], "<null>") :
                  c \in {<<"c1", "A", "True">>, <<"c2", "B", "False">>}}}

\* start_idx and end_idx of the module (end_idx = NoEnd stands for None)
NoEnd == 0 - 1
Slices == {<<start, end>> : start \in {0, 1}, end \in {NoEnd, 1, 2}}

SkipLimitScripts == {"college_counts", "counts", "college_skill"}
CursorScripts == {"skill", "skill_year", "no_skill", "education_count",
                  "student_education"}
ExportScripts == {"linkedin", "no_skill_resume"}
ImportScripts == {"skill_from_resume"}
ExtractScripts == {"extract_skill", "extract_education"}
PipelineScripts == {"college_with_missing_grad"}
Scripts == SkipLimitScripts \cup CursorScripts \cup ExportScripts
               \cup ImportScripts \cup ExtractScripts \cup PipelineScripts

\* the locals of process_csv: the range, the loop variable, the frame to
\* write, the last answer of the parser and the values taken from it; the
\* rows fetched and the lines printed, in order
ExtractAcc(slice) ==
    [start_idx |-> slice[1], end_idx |-> slice[2], index |-> slice[1],
     output_df |-> <<>>, parsed_data |-> EmptyParse, extracted |-> <<>>,
     fetched |-> <<>>, log |-> <<>>]

\* single documents that vary in every field the script reads
RecordsFor(s) ==
    CASE s \in {"college_counts", "counts"} ->
            CollegeRecords \cup CollectionRecords \cup SkillRecords
      [] s = "college_skill" -> CollegeRecords \cup SkillRecords
      [] s = "skill" -> SkillRecords
      [] s = "skill_year" -> SkillRecords \cup YearRecords
      [] s = "no_skill" -> SkillRecords \cup CollectionRecords
      [] s \in {"education_count", "student_education"} -> YearRecords
      [] s = "linkedin" -> LinkedinRecords
      [] s = "no_skill_resume" -> SkillRecords

\* documents for stores of several documents
SamplesFor(s) ==
    IF s = "linkedin" THEN LinkedinSamples ELSE SampleRecords

\* module-level stats of counts.py, and the counters each main() initialises
InitAcc(s) ==
    CASE s = "counts" ->
            [total_processed |-> 0,
             projects |-> [have |-> 0, have_not |-> 0],
             work_experience |-> [have |-> 0, have_not |-> 0],
             achievements |-> [have |-> 0, have_not |-> 0],
             skills |-> [have |-> 0, have_not |-> 0],
             grade |-> [have |-> 0, have_not |-> 0]]
      [] s = "skill" ->
            [skill_categories |-> [c \in Range(skills_categories) |-> 0]]
      [] s = "skill_year" ->
            [skill_categories |-> [c \in Range(skills_categories) |-> 0],
             grad_year_2026_categories |-> [c \in Range(skills_categories) |-> 0],
             grad_year_2027_categories |-> [c \in Range(skills_categories) |-> 0],
             grad_2026_count |-> 0,
             grad_2027_count |-> 0]
      [] s = "no_skill" ->
            [total_no_skills_with_education |-> 0,
             total_no_skills_with_projects |-> 0,
             total_no_skills_with_work_exp |-> 0,
             total_no_skills_with_resume |-> 0]
      [] s = "education_count" ->
            [y2026 |-> 0, y2027 |-> 0, special_count |-> 0,
             no_education_records_count |-> 0,
             education_records_but_no_primary_count |-> 0]
      [] s = "student_education" ->
            [no_education_ids |-> <<>>, no_primary_ids |-> <<>>,
             no_end_year_ids |-> <<>>,
             i |-> 0, processed |-> 0, queried |-> <<>>, returned |-> <<>>]
      [] s = "college_skill" ->
            [overall |-> [c \in Range(skills_categories) |-> 0]]
      [] s = "college_counts" -> [none |-> 0]
      [] s = "linkedin" -> [none |-> 0]
      [] s = "no_skill_resume" ->
            [total_zero_skills |-> 0, total_with_resumes |-> 0]
      [] s = "skill_from_resume" ->
            [update_count |-> 0, error_count |-> 0, rows |-> <<>>]
      [] s = "college_with_missing_grad" -> [none |-> 0]

MaxResumes == 2      \* students that may have a resume document
                     \* (no_skill_resume: documents of the resume collection)

\* resume collections of up to MaxResumes documents of the first n students
\* (a student may have several resumes); documents of one student in a row
ResumeCollections(n) ==
    {r \in SeqsUpTo(1..n, MaxResumes) :
        \A k \in 1..(Len(r) - 1) : r[k] <= r[k + 1]}

Init ==
    /\ script \in Scripts
    /\ \/ /\ script \notin ImportScripts \cup ExtractScripts
                                       \cup PipelineScripts
          /\ store \in SeqsUpTo(SamplesFor(script), MaxRecords)
          /\ batch_size \in 1..MaxBatch
          /\ df = <<>>
       \/ /\ script \notin ImportScripts \cup ExtractScripts
                                       \cup PipelineScripts
          /\ store \in {<<r>> : r \in RecordsFor(script)}
          /\ batch_size = 1
          /\ df = <<>>
       \/ /\ script \in PipelineScripts
          /\ store \in {<<>>} \cup {<<r>> : r \in GradRecords} \cup GradStores
          /\ batch_size = 1
          /\ df = <<>>
       \/ /\ script \in ExtractScripts
          /\ store = <<>>
          /\ batch_size = 1
          /\ df \in InputFrames \cup RichFrames
       \/ /\ script \in ImportScripts
          /\ store \in ImportStores
          /\ batch_size = 1
          /\ df \in DataFrames
       \/ /\ script \in ImportScripts
          /\ store \in {<<r, r>> : r \in ImportRecords}
          /\ batch_size = 1
          /\ df \in TextFrames
    /\ resumes \in IF script \in {"no_skill", "student_education"}
                   THEN SUBSET (1..Min(Len(store), MaxResumes))
                   ELSE IF script = "no_skill_resume"
                   THEN ResumeCollections(Min(Len(store), MaxResumes))
                   ELSE {{}}
    /\ pc = IF script \in ExtractScripts THEN "start" ELSE "connect"
    /\ client = [state |-> "none", bound |-> FALSE]
    /\ live = [i \in 1..Len(store) |-> i]
    /\ changes = 0
    /\ fetching = {}
    /\ page = <<>>
    /\ acc_writers = {}
    /\ run = 1
    /\ first_output = [written |-> FALSE, rows |-> <<>>, acc |-> <<>>]
    /\ total_documents = 0
    /\ batch_num = 0
    /\ cursor_pos = 0
    /\ current_batch = <<>>
    /\ processed_count = 0
    /\ all_results = <<>>
    /\ classified = <<>>
    /\ acc \in IF script \notin ExtractScripts THEN {InitAcc(script)}
                ELSE IF df \in RichFrames THEN {ExtractAcc(<<0, NoEnd>>)}
                ELSE {ExtractAcc(slice) : slice \in Slices}
    /\ summary_data = <<>>
    /\ output = <<>>
    /\ output_written \in IF script \in ExtractScripts /\ df \in InputFrames
                           THEN BOOLEAN ELSE {FALSE}
    /\ error = "none"

(***************************************************************************)
(* The skip/limit reader of college_counts, counts and college_skill       *)
(***************************************************************************)
\* a version that logs the exception and lets main() carry on
Raise_and_continue(exc) ==
    /\ error' = exc
    /\ pc' = pc

\* the except clause of main(): the exception is logged, nothing more is
\* computed or written
Raise(exc) ==
    /\ error' = exc
    /\ pc' = "done"

\* scripts that connect through connect_to_mongodb(), which forces a round
\* trip with server_info(); the others build MongoClient inside main()'s try
ConnectScripts == {"college_counts", "counts", "college_skill", "skill",
                   "skill_year"}

\* the client is created and "client" is bound in main(): the return of
\* connect_to_mongodb, or the MongoClient(...) statement of main()
connect_to_mongodb ==
    /\ pc = "connect"
    /\ client' = [state |-> "open", bound |-> TRUE]
    /\ pc' = "start"
    /\ UNCHANGED <<inputs, live, changes, fetching, page, acc_writers, df, run, first_output,
                   total_documents, batch_num, cursor_pos, current_batch,
                   processed_count, all_results, classified, acc, summary_data,
                   output, output_written, error>>

\* connect_to_mongodb raises: in MongoClient(...) before a client exists, or
\* in server_info() after it was created; the function logs and re-raises,
\* so main() never binds "client"
connect_fails ==
    /\ pc = "connect"
    /\ script \in ConnectScripts
    /\ \E created \in BOOLEAN :
          client' = [state |-> IF created THEN "open" ELSE "none",
                     bound |-> FALSE]
    /\ Raise("ServerSelectionTimeoutError")
    /\ UNCHANGED <<inputs, live, changes, fetching, page, acc_writers, df, run, first_output,
                   total_documents, batch_num, cursor_pos, current_batch,
                   processed_count, all_results, classified, acc, summary_data,
                   output, output_written>>

\* the finally clause of main(): if 'client' in locals(): client.close()
main_finally ==
    /\ pc = "done"
    /\ client' = IF client.bound THEN [client EXCEPT !.state = "closed"]
                 ELSE client
    /\ pc' = "exit"
    /\ UNCHANGED <<inputs, live, changes, fetching, page, acc_writers, df, run, first_output,
                   total_documents, batch_num, cursor_pos, current_batch,
                   processed_count, all_results, classified, acc, summary_data,
                   output, output_written, error>>

\* scripts whose report is run a second time against the same store
RerunScripts == {"college_counts", "counts"}

\* main() is called again: its locals are new, the report goes to a file
\* of its own (the name carries the time), and the module-level stats of
\* counts.py is the dict the first call left
main_again ==
    /\ script \in RerunScripts
    /\ pc = "exit"
    /\ run = 1
    /\ changes = 0
    /\ Len(store) <= MaxRerun
    /\ run' = 2
    /\ first_output' = [written |-> output_written, rows |-> output,
                        acc |-> acc]
    /\ pc' = "connect"
    /\ client' = [state |-> "none", bound |-> FALSE]
    /\ fetching' = {}
    /\ page' = <<>>
    /\ acc_writers' = {}
    /\ total_documents' = 0
    /\ batch_num' = 0
    /\ cursor_pos' = 0
    /\ current_batch' = <<>>
    /\ processed_count' = 0
    /\ all_results' = <<>>
    /\ classified' = <<>>
    /\ summary_data' = <<>>
    /\ output' = <<>>
    /\ output_written' = FALSE
    /\ error' = "none"
    /\ UNCHANGED <<inputs, live, changes, df, acc>>

\* a document another process inserts while a report runs
inserted_document ==
    Rec(List(<<Entry("True", "B", "8.5", IntYear(2026))>>), Skills(2),
        Absent, Absent, Absent, Absent)

\* collections against which runs with concurrent writes are explored:
\* students of no college and students of college A (the inserted one is
\* of college B)
WrittenStores ==
    SeqsUpTo({Blank,
              Rec(List(<<Entry("True", "A", "8.5", IntYear(2026))>>), Skills(2),
                  List(<<"x">>), Absent, List(<<"x">>), Absent)},
             MaxRecords)

\* the document with identifier id: one of the initial collection, or the
\* inserted one
document(id) == IF id <= Len(store) THEN store[id] ELSE inserted_document

\* another process inserts a document during the scan of college_counts
\* (natural order: it is appended)
other_insert ==
    /\ script = "college_counts"
    /\ store \in WrittenStores
    /\ pc = "scan"
    /\ changes < MaxChanges
    /\ live' = Append(live, Len(store) + changes + 1)
    /\ changes' = changes + 1
    /\ UNCHANGED <<inputs, client, fetching, page, acc_writers, df, run, first_output, pc,
                   total_documents, batch_num, cursor_pos, current_batch,
                   processed_count, all_results, classified, acc, summary_data,
                   output, output_written, error>>

\* another process deletes a document during the scan of college_counts
other_delete ==
    /\ script = "college_counts"
    /\ store \in WrittenStores
    /\ pc = "scan"
    /\ changes < MaxChanges
    /\ \E k \in 1..Len(live) :
          live' = SubSeq(live, 1, k - 1) \o SubSeq(live, k + 1, Len(live))
    /\ changes' = changes + 1
    /\ UNCHANGED <<inputs, client, fetching, page, acc_writers, df, run, first_output, pc,
                   total_documents, batch_num, cursor_pos, current_batch,
                   processed_count, all_results, classified, acc, summary_data,
                   output, output_written, error>>

\* collection.count_documents({})
count_documents == Len(live)

\* a ceiling that forgets the remainder page
total_batches_floor == total_documents \div batch_size

\* total_batches = (total_documents + batch_size - 1) // batch_size
total_batches == (total_documents + batch_size - 1) \div batch_size

\* list(collection.find().skip(skip).limit(limit)): ids in stored order
find_skip_limit(skip, limit) ==
    LET n == IF Len(live) - skip < 0 THEN 0 ELSE Min(limit, Len(live) - skip)
    IN  [i \in 1..n |-> live[skip + i]]

\* ThreadPoolExecutor(max_workers=4)
max_workers == 4

\* a version in which the loop body is run by a thread of the pool
loop_thread_pool == "ThreadPoolExecutor-0_0"

\* the thread that runs the body of "for batch_num in range(total_batches)"
loop_thread == "MainThread"

\* connect_to_mongodb and count_documents, up to the start of the loop
SL_Start ==
    /\ script \in SkipLimitScripts
    /\ pc = "start"
    /\ total_documents' = count_documents
    /\ pc' = "scan"
    /\ UNCHANGED <<inputs, context, batch_num, cursor_pos, current_batch, processed_count,
                   all_results, classified, acc, summary_data, output,
                   output_written, error>>

\* analyze_student_record of the running script
analyze_student_record(student) ==
    CASE script = "college_counts" -> cc_analyze_student_record(student)
      [] script = "counts" -> counts_analyze_student_record(student)
      [] script = "college_skill" -> cs_analyze_student_record(student)

\* "for batch_num in range(total_batches)": the find().skip().limit() of
\* the next page is issued by the thread that runs the loop
SL_Fetch ==
    /\ script \in SkipLimitScripts
    /\ pc = "scan"
    /\ batch_num < total_batches
    /\ fetching = {}
    /\ fetching' = {batch_num}
    /\ page' = find_skip_limit(batch_num * batch_size, batch_size)
    /\ UNCHANGED <<inputs, client, live, changes, acc_writers, df, run, first_output, pc,
                   total_documents, batch_num, cursor_pos, current_batch,
                   processed_count, all_results, classified, acc, summary_data,
                   output, output_written, error>>

\* list(batch_cursor) raises (the server went away): the exception leaves
\* the loop and the with block and is caught by main()'s except clause
SL_FetchFails ==
    /\ script \in SkipLimitScripts
    /\ pc = "scan"
    /\ fetching = {batch_num}
    /\ fetching' = {}
    /\ page' = <<>>
    /\ Raise("AutoReconnect")
    /\ UNCHANGED <<inputs, client, live, changes, acc_writers, df, run, first_output,
                   total_documents, batch_num, cursor_pos, current_batch,
                   processed_count, all_results, classified, acc, summary_data,
                   output, output_written>>

\* the rest of the iteration, once list(batch_cursor) has returned the page:
\* process_batch, all_results.extend, processed_count +=
ScanBatch ==
    /\ pc = "scan"
    /\ fetching = {batch_num}
    /\ LET batch == page
           batch_results == [i \in 1..Len(batch) |->
                                analyze_student_record(document(batch[i]))]
       IN  /\ all_results' = all_results \o batch_results
           /\ classified' = classified \o batch
           /\ processed_count' = processed_count + Len(batch)
    /\ acc_writers' = acc_writers \cup {loop_thread}
    /\ fetching' = {}
    /\ page' = <<>>
    /\ batch_num' = batch_num + 1
    /\ UNCHANGED <<inputs, client, live, changes, df, run, first_output, pc,
                   total_documents,
                   cursor_pos, current_batch, acc, summary_data, output,
                   output_written, error>>

cc_ScanBatch ==
    script = "college_counts" /\ ScanBatch

counts_ScanBatch ==
    script = "counts" /\ ScanBatch

cs_ScanBatch ==
    script = "college_skill" /\ ScanBatch

(***************************************************************************)
(* The grouped aggregators and writers of the skip/limit reports           *)
(***************************************************************************)
\* df[column]: an empty list of results gives a DataFrame without columns,
\* so selecting a column raises KeyError
has_column(results) == Len(results) > 0

\* Series.unique(): distinct values in order of first appearance
RECURSIVE unique(_)
unique(values) ==
    IF values = <<>> THEN <<>>
    ELSE LET front == unique(SubSeq(values, 1, Len(values) - 1))
             last == values[Len(values)]
         IN  IF last \in Range(front) THEN front ELSE Append(front, last)

\* order of str values under "<": the names that occur, in code-point order
name_order == <<"A", "B", "Unknown">>
name_rank(c) == CHOOSE i \in 1..Len(name_order) : name_order[i] = c

\* a version that writes the rows in the order they were built
sort_values_none(rows) == rows

\* DataFrame.sort_values('College Name')
RECURSIVE sort_values(_)
sort_values(rows) ==
    IF rows = <<>> THEN <<>>
    ELSE LET m == CHOOSE i \in 1..Len(rows) :
                    \A j \in 1..Len(rows) :
                        name_rank(rows[i].College_Name) < name_rank(rows[j].College_Name)
                        \/ (name_rank(rows[i].College_Name) = name_rank(rows[j].College_Name)
                            /\ i <= j)
             rest == [k \in 1..(Len(rows) - 1) |-> IF k < m THEN rows[k] ELSE rows[k + 1]]
         IN  <<rows[m]>> \o sort_values(rest)

\* rows of df whose college_name is college
college_df(results, college) ==
    {i \in 1..Len(results) : results[i].college_name = college}

\* a summary row that counts the has_grade column from the whole frame
cc_college_summary_global(results, college) ==
    LET cdf == college_df(results, college)
        college_count == Cardinality(cdf)
        sum(col) == Cardinality({i \in cdf : results[i][col]})
    IN  [College_Name |-> college,
         Total_Students |-> college_count,
         Have_Projects |-> sum("has_projects"),
         No_Projects |-> college_count - sum("has_projects"),
         Have_Experience |-> sum("has_experience"),
         No_Experience |-> college_count - sum("has_experience"),
         Have_Achievements |-> sum("has_achievements"),
         No_Achievements |-> college_count - sum("has_achievements"),
         Have_Skills |-> sum("has_skills"),
         No_Skills |-> college_count - sum("has_skills"),
         Have_Grade |-> Cardinality({i \in 1..Len(results) : results[i].has_grade}),
         No_Grade |-> college_count - sum("has_grade")]

\* the college_summary dict of college_counts.main
cc_college_summary(results, college) ==
    LET cdf == college_df(results, college)
        college_count == Cardinality(cdf)
        sum(col) == Cardinality({i \in cdf : results[i][col]})
    IN  [College_Name |-> college,
         Total_Students |-> college_count,
         Have_Projects |-> sum("has_projects"),
         No_Projects |-> college_count - sum("has_projects"),
         Have_Experience |-> sum("has_experience"),
         No_Experience |-> college_count - sum("has_experience"),
         Have_Achievements |-> sum("has_achievements"),
         No_Achievements |-> college_count - sum("has_achievements"),
         Have_Skills |-> sum("has_skills"),
         No_Skills |-> college_count - sum("has_skills"),
         Have_Grade |-> sum("has_grade"),
         No_Grade |-> college_count - sum("has_grade")]

\* the college_summary dict of college_skill.main
cs_college_summary(results, college) ==
    LET cdf == college_df(results, college)
    IN  [College_Name |-> college,
         Total_Students |-> Cardinality(cdf),
         bands |-> [c \in Range(skills_categories) |->
                       Cardinality({i \in cdf : results[i].skills_category = c})]]

college_names(results) == [i \in 1..Len(results) |-> results[i].college_name]

\* college_counts.main after the loop: DataFrame, summary rows, sort, to_csv
cc_Summarize ==
    /\ script = "college_counts"
    /\ pc = "scan"
    /\ batch_num >= total_batches
    /\ IF has_column(all_results)
       THEN LET colleges == unique(college_names(all_results))
                rows == [i \in 1..Len(colleges) |->
                            cc_college_summary(all_results, colleges[i])]
            IN  /\ summary_data' = rows
                /\ output' = sort_values(rows)
                /\ output_written' = TRUE
                /\ pc' = "done"
                /\ error' = error
       ELSE /\ Raise("KeyError")
            /\ summary_data' = <<>>
            /\ UNCHANGED <<output, output_written>>
    /\ UNCHANGED <<inputs, context, total_documents, batch_num, cursor_pos, current_batch,
                   processed_count, all_results, classified, acc>>

\* summary_df.to_csv raises (the file cannot be written): the rows were
\* built, no file is produced, main()'s except clause logs the error
cc_WriteFails ==
    /\ script = "college_counts"
    /\ pc = "scan"
    /\ batch_num >= total_batches
    /\ has_column(all_results)
    /\ LET colleges == unique(college_names(all_results))
       IN  summary_data' = [i \in 1..Len(colleges) |->
                               cc_college_summary(all_results, colleges[i])]
    /\ Raise("OSError")
    /\ UNCHANGED <<inputs, context, total_documents, batch_num, cursor_pos,
                   current_batch, processed_count, all_results, classified, acc,
                   output, output_written>>

\* college_skill.main after the loop: both CSV files and the percentages
cs_Summarize ==
    /\ script = "college_skill"
    /\ pc = "scan"
    /\ batch_num >= total_batches
    /\ IF has_column(all_results)
       THEN LET colleges == unique(college_names(all_results))
                rows == [i \in 1..Len(colleges) |->
                            cs_college_summary(all_results, colleges[i])]
            IN  /\ summary_data' = rows
                /\ output' = sort_values(rows)
                /\ output_written' = TRUE
                /\ acc' = [overall |->
                             [c \in Range(skills_categories) |->
                                Cardinality({i \in 1..Len(all_results) :
                                               all_results[i].skills_category = c})]]
                /\ pc' = "done"
                /\ error' = error
       ELSE /\ Raise("KeyError")
            /\ summary_data' = <<>>
            /\ UNCHANGED <<output, output_written, acc>>
    /\ UNCHANGED <<inputs, context, total_documents, batch_num, cursor_pos, current_batch,
                   processed_count, all_results, classified>>

counts_categories ==
    <<"projects", "work_experience", "achievements", "skills", "grade">>

\* df[category].value_counts().to_dict().get(value, 0)
value_count(results, category, value) ==
    Cardinality({i \in 1..Len(results) : results[i][category] = value})

\* a tally that derives have_not from the skills column for every category
counts_stats_slip(results) ==
    [total_processed |-> Len(results)] @@
    [c \in Range(counts_categories) |->
        [have |-> value_count(results, c, "have"),
         have_not |-> value_count(results, "skills", "have_not")]]

\* a tally that adds this run's counts to what stats already holds
counts_stats_add(results) ==
    [total_processed |-> Len(results)] @@
    [c \in Range(counts_categories) |->
        [have |-> acc[c].have + value_count(results, c, "have"),
         have_not |-> acc[c].have_not + value_count(results, c, "have_not")]]

\* the stats dict after the "for category" loop of counts.main
counts_stats(results) ==
    [total_processed |-> Len(results)] @@
    [c \in Range(counts_categories) |->
        [have |-> value_count(results, c, "have"),
         have_not |-> value_count(results, c, "have_not")]]

\* counts.main after the loop: stats, summary frame, to_csv
counts_Summarize ==
    /\ script = "counts"
    /\ pc = "scan"
    /\ batch_num >= total_batches
    /\ IF has_column(all_results)
       THEN /\ acc' = counts_stats(all_results)
            /\ output' = [i \in 1..Len(counts_categories) |->
                            [field |-> counts_categories[i],
                             have |-> acc'[counts_categories[i]].have,
                             have_not |-> acc'[counts_categories[i]].have_not]]
            /\ output_written' = TRUE
            /\ pc' = "done"
            /\ error' = error
       ELSE /\ acc' = [acc EXCEPT !.total_processed = Len(all_results)]
            /\ Raise("KeyError")
            /\ UNCHANGED <<output, output_written>>
    /\ UNCHANGED <<inputs, context, total_documents, batch_num, cursor_pos, current_batch,
                   processed_count, all_results, classified, summary_data>>

(***************************************************************************)
(* The cursor readers: skill, skill_year, no_skill, education_count,       *)
(* student_education                                                       *)
(***************************************************************************)
\* the filter {}
any_document(student) == TRUE

\* {"$or": [{"education_records": {"$exists": False}},
\*          {"education_records": {"$eq": []}}]}
no_education_filter(student) ==
    \/ student.education_records.k = "absent"
    \/ student.education_records = List(<<>>)

\* {"education_records": {"$exists": True, "$ne": []}}: a null field matches
with_education_filter(student) ==
    /\ student.education_records.k # "absent"
    /\ student.education_records # List(<<>>)

\* linkedin.query: the dict literal gives "$ne" twice for the url, so only
\* the last one ("") is kept, and a null url matches; "$size": 0 matches
\* only a field that is an array of no elements
linkedin_query(student) ==
    /\ student.linkedin_url \notin {"<absent>", ""}
    /\ student.education_records = List(<<>>)

\* no_skill_resume.zero_skills_query:
\* {"$or": [{"skills": {"$exists": False}}, {"skills": {"$eq": []}}]}
zero_skills_query(student) ==
    \/ student.skills.k = "absent"
    \/ student.skills = List(<<>>)

matches(filter, student) ==
    CASE filter = "all" -> any_document(student)
      [] filter = "no_education" -> no_education_filter(student)
      [] filter = "with_education" -> with_education_filter(student)
      [] filter = "linkedin" -> linkedin_query(student)
      [] filter = "zero_skills" -> zero_skills_query(student)

\* ids of the documents a find(filter) cursor yields, in stored order
find(filter) ==
    LET F[n \in 0..Len(store)] ==
            IF n = 0 THEN <<>>
            ELSE IF matches(filter, store[n]) THEN Append(F[n - 1], n)
                 ELSE F[n - 1]
    IN  F[Len(store)]

\* ids of a batch up to and including the first one whose education loop
\* raises; the whole batch when none raises
passed_to_classifier(batch) ==
    LET bad == {i \in 1..Len(batch) : edu_loop_raises(store[batch[i]])}
    IN  IF bad = {} THEN batch
        ELSE SubSeq(batch, 1, CHOOSE i \in bad : \A j \in bad : i <= j)

batch_raises(batch) == \E i \in 1..Len(batch) : edu_loop_raises(store[batch[i]])

\* sum of f[id] over the ids of a batch
sum_over(batch, f) ==
    LET S[i \in 0..Len(batch)] == IF i = 0 THEN 0 ELSE S[i - 1] + f[batch[i]]
    IN  S[Len(batch)]

\* count_documents({}) and the counters, up to the start of the cursor loop
Cursor_Start ==
    /\ script \in {"skill", "skill_year", "no_skill"}
    /\ pc = "start"
    /\ total_documents' = count_documents
    /\ pc' = "scan"
    /\ UNCHANGED <<inputs, context, batch_num, cursor_pos, current_batch, processed_count,
                   all_results, classified, acc, summary_data, output,
                   output_written, error>>

\* one iteration of "for student in collection.find({}, {'skills': 1})"
skill_Record ==
    /\ script = "skill"
    /\ pc = "scan"
    /\ cursor_pos < Len(find("all"))
    /\ LET id == find("all")[cursor_pos + 1]
           category == skill_category(get_skills_count(store[id]))
       IN  /\ acc' = [acc EXCEPT !.skill_categories[category] = @ + 1]
           /\ classified' = Append(classified, id)
    /\ processed_count' = processed_count + 1
    /\ cursor_pos' = cursor_pos + 1
    /\ UNCHANGED <<inputs, context, pc, total_documents, batch_num, current_batch,
                   all_results, summary_data, output, output_written, error>>

\* rows of the 'Skills Category' / 'Student Count' frame
category_rows(counts) ==
    [i \in 1..Len(skills_categories) |->
        [Skills_Category |-> skills_categories[i],
         Student_Count |-> counts[skills_categories[i]]]]

\* skill.main after the loop: to_csv, then count / processed_count
skill_Finish ==
    /\ script = "skill"
    /\ pc = "scan"
    /\ cursor_pos >= Len(find("all"))
    /\ output' = category_rows(acc.skill_categories)
    /\ output_written' = TRUE
    /\ IF processed_count = 0
       THEN Raise("ZeroDivisionError")
       ELSE pc' = "done" /\ error' = error
    /\ UNCHANGED <<inputs, context, total_documents, batch_num, cursor_pos, current_batch,
                   processed_count, all_results, classified, acc, summary_data>>

\* one iteration of the loop of skill_year.main
sy_Record ==
    /\ script = "skill_year"
    /\ pc = "scan"
    /\ cursor_pos < Len(find("all"))
    /\ LET id == find("all")[cursor_pos + 1]
           student == store[id]
           r == sy_classify(student)
           counted == [acc EXCEPT !.skill_categories[r.category] = @ + 1]
       IN  /\ classified' = Append(classified, id)
           /\ IF edu_loop_raises(student)
              THEN /\ acc' = counted
                   /\ Raise("TypeError")
                   /\ UNCHANGED <<processed_count, cursor_pos>>
              ELSE /\ acc' = [counted EXCEPT
                                !.grad_2026_count = @ + r.g2026,
                                !.grad_2027_count = @ + r.g2027,
                                !.grad_year_2026_categories[r.category] = @ + r.g2026,
                                !.grad_year_2027_categories[r.category] = @ + r.g2027]
                   /\ processed_count' = processed_count + 1
                   /\ cursor_pos' = cursor_pos + 1
                   /\ UNCHANGED <<pc, error>>
    /\ UNCHANGED <<inputs, context, total_documents, batch_num, current_batch,
                   all_results, summary_data, output, output_written>>

\* skill_year.main after the loop: merge, to_csv, then count / processed_count
sy_Finish ==
    /\ script = "skill_year"
    /\ pc = "scan"
    /\ cursor_pos >= Len(find("all"))
    /\ output' = [i \in 1..Len(skills_categories) |->
                    [Skills_Category |-> skills_categories[i],
                     Student_Count |-> acc.skill_categories[skills_categories[i]],
                     Student_Count_2026 |->
                        acc.grad_year_2026_categories[skills_categories[i]],
                     Student_Count_2027 |->
                        acc.grad_year_2027_categories[skills_categories[i]]]]
    /\ output_written' = TRUE
    /\ IF processed_count = 0
       THEN Raise("ZeroDivisionError")
       ELSE pc' = "done" /\ error' = error
    /\ UNCHANGED <<inputs, context, total_documents, batch_num, cursor_pos, current_batch,
                   processed_count, all_results, classified, acc, summary_data>>

\* no_skill.process_batch and the counter updates that follow it
ns_flush(batch) ==
    LET r == [id \in Range(batch) |-> ns_classify(store[id], id)]
        edu == [id \in Range(batch) |-> r[id].education]
        prj == [id \in Range(batch) |-> r[id].projects]
        wrk == [id \in Range(batch) |-> r[id].work_exp]
        res == [id \in Range(batch) |-> r[id].resume]
    IN  /\ acc' = [acc EXCEPT
                     !.total_no_skills_with_education = @ + sum_over(batch, edu),
                     !.total_no_skills_with_projects = @ + sum_over(batch, prj),
                     !.total_no_skills_with_work_exp = @ + sum_over(batch, wrk),
                     !.total_no_skills_with_resume = @ + sum_over(batch, res)]
        /\ classified' = classified \o batch
        /\ processed_count' = processed_count + Len(batch)

\* one iteration of "for student in cursor" of no_skill.main
ns_Record ==
    /\ script = "no_skill"
    /\ pc = "scan"
    /\ cursor_pos < Len(find("all"))
    /\ LET batch == Append(current_batch, find("all")[cursor_pos + 1])
       IN  IF Len(batch) >= batch_size
           THEN ns_flush(batch) /\ current_batch' = <<>>
           ELSE /\ current_batch' = batch
                /\ UNCHANGED <<acc, classified, processed_count>>
    /\ cursor_pos' = cursor_pos + 1
    /\ UNCHANGED <<inputs, context, pc, total_documents, batch_num, all_results,
                   summary_data, output, output_written, error>>

\* no_skill.main after the loop: the remaining batch, then the percentages
\* of total_students
ns_Finish ==
    /\ script = "no_skill"
    /\ pc = "scan"
    /\ cursor_pos >= Len(find("all"))
    /\ IF current_batch # <<>>
       THEN ns_flush(current_batch)
       ELSE UNCHANGED <<acc, classified, processed_count>>
    /\ current_batch' = current_batch
    /\ IF total_documents = 0
       THEN Raise("ZeroDivisionError")
       ELSE pc' = "done" /\ error' = error
    /\ UNCHANGED <<inputs, context, total_documents, batch_num, cursor_pos, all_results,
                   summary_data, output, output_written>>

\* education_count.main up to the start of the cursor loop
ec_Start ==
    /\ script = "education_count"
    /\ pc = "start"
    /\ total_documents' = count_documents
    /\ acc' = [acc EXCEPT !.no_education_records_count =
                              Len(find("no_education"))]
    /\ pc' = "scan"
    /\ UNCHANGED <<inputs, context, batch_num, cursor_pos, current_batch, processed_count,
                   all_results, classified, summary_data, output,
                   output_written, error>>

\* education_count.process_batch and the counter updates that follow it
ec_flush(batch) ==
    LET c26 == [id \in Range(batch) |-> ec_classify(store[id]).y2026]
        c27 == [id \in Range(batch) |-> ec_classify(store[id]).y2027]
        spc == [id \in Range(batch) |-> ec_classify(store[id]).special]
        nop == [id \in Range(batch) |-> ec_classify(store[id]).no_primary]
    IN  /\ classified' = classified \o passed_to_classifier(batch)
        /\ IF batch_raises(batch)
           THEN /\ Raise("TypeError")
                /\ UNCHANGED <<acc, processed_count, batch_num>>
           ELSE /\ acc' = [acc EXCEPT
                             !.y2026 = @ + sum_over(batch, c26),
                             !.y2027 = @ + sum_over(batch, c27),
                             !.special_count = @ + sum_over(batch, spc),
                             !.education_records_but_no_primary_count =
                                 @ + sum_over(batch, nop)]
                /\ processed_count' = processed_count + Len(batch)
                /\ batch_num' = batch_num + 1

\* one iteration of "for student in cursor" of education_count.main
ec_Record ==
    /\ script = "education_count"
    /\ pc = "scan"
    /\ cursor_pos < Len(find("with_education"))
    /\ LET batch == Append(current_batch,
                           find("with_education")[cursor_pos + 1])
       IN  IF Len(batch) >= batch_size
           THEN /\ ec_flush(batch)
                /\ current_batch' = IF batch_raises(batch) THEN batch ELSE <<>>
                /\ IF batch_raises(batch)
                   THEN TRUE
                   ELSE UNCHANGED <<pc, error>>
           ELSE /\ current_batch' = batch
                /\ UNCHANGED <<acc, classified, processed_count, batch_num,
                               pc, error>>
    /\ cursor_pos' = cursor_pos + 1
    /\ UNCHANGED <<inputs, context, total_documents, all_results, summary_data, output,
                   output_written>>

\* education_count.main after the loop: the remaining batch, the results and
\* the guarded percentages
ec_Finish ==
    /\ script = "education_count"
    /\ pc = "scan"
    /\ cursor_pos >= Len(find("with_education"))
    /\ IF current_batch # <<>>
       THEN /\ ec_flush(current_batch)
            /\ IF batch_raises(current_batch)
               THEN TRUE
               ELSE pc' = "done" /\ error' = error
       ELSE /\ pc' = "done"
            /\ UNCHANGED <<acc, classified, processed_count, batch_num, error>>
    /\ UNCHANGED <<inputs, context, total_documents, cursor_pos, current_batch,
                   all_results, summary_data, output, output_written>>

(***************************************************************************)
(* student_education: the three process_resumes calls and the education    *)
(* scan between them                                                       *)
(***************************************************************************)
ResumePhases == {"resumes_no_edu", "resumes_no_primary", "resumes_no_end_year"}

\* the student_ids argument of the process_resumes call at pc
resume_ids(at) ==
    CASE at = "resumes_no_edu" -> acc.no_education_ids
      [] at = "resumes_no_primary" -> acc.no_primary_ids
      [] at = "resumes_no_end_year" -> acc.no_end_year_ids

\* create_csv_files and the no-education query, up to the first
\* process_resumes call
se_Start ==
    /\ script = "student_education"
    /\ pc = "start"
    /\ output' = [f \in ResumePhases |-> <<>>]
    /\ output_written' = TRUE
    /\ acc' = [acc EXCEPT !.no_education_ids = find("no_education")]
    /\ pc' = "resumes_no_edu"
    /\ UNCHANGED <<inputs, context, total_documents, batch_num, cursor_pos, current_batch,
                   processed_count, all_results, classified, summary_data, error>>

\* a slice that starts one element late
resume_slice_late(student_ids, i) ==
    SubSeq(student_ids, i + 2, Min(i + ResumeBatch, Len(student_ids)))

\* student_ids[i:i+batch_size]
resume_slice(student_ids, i) ==
    SubSeq(student_ids, i + 1, Min(i + ResumeBatch, Len(student_ids)))

\* one iteration of "for i in range(0, total_ids, batch_size)" of
\* process_resumes: the $in query and the rows appended to the file
se_ResumeSlice ==
    /\ script = "student_education"
    /\ pc \in ResumePhases
    /\ acc.i < Len(resume_ids(pc))
    /\ LET batch_ids == resume_slice(resume_ids(pc), acc.i)
           found == SelectSeq(batch_ids, LAMBDA id : id \in resumes)
       IN  /\ output' = [output EXCEPT ![pc] = @ \o found]
           /\ acc' = [acc EXCEPT !.i = @ + ResumeBatch,
                                 !.processed = @ + Len(batch_ids),
                                 !.queried = @ \o batch_ids]
    /\ UNCHANGED <<inputs, context, pc, total_documents, batch_num, cursor_pos, current_batch,
                   processed_count, all_results, classified, summary_data,
                   output_written, error>>

\* process_resumes returns; main() goes on to its next step
se_ResumesReturn ==
    /\ script = "student_education"
    /\ pc \in ResumePhases
    /\ acc.i >= Len(resume_ids(pc))
    /\ acc' = [acc EXCEPT !.i = 0, !.processed = 0, !.queried = <<>>,
                          !.returned = Append(@, [file |-> pc,
                                                  student_ids |-> resume_ids(pc),
                                                  processed |-> acc.processed,
                                                  queried |-> acc.queried])]
    /\ pc' = CASE pc = "resumes_no_edu" -> "scan"
               [] pc = "resumes_no_primary" -> "resumes_no_end_year"
               [] pc = "resumes_no_end_year" -> "done"
    /\ total_documents' = IF pc = "resumes_no_edu"
                          THEN Len(find("with_education"))
                          ELSE total_documents
    /\ UNCHANGED <<inputs, context, batch_num, cursor_pos, current_batch, processed_count,
                   all_results, classified, summary_data, output,
                   output_written, error>>

\* process_education_batch and the list updates that follow it
se_flush(batch) ==
    LET kind(id) == se_classify(store[id])
    IN  /\ classified' = classified \o passed_to_classifier(batch)
        /\ IF batch_raises(batch)
           THEN /\ Raise("TypeError")
                /\ UNCHANGED <<acc, processed_count, batch_num>>
           ELSE /\ acc' = [acc EXCEPT
                             !.no_primary_ids =
                                 @ \o SelectSeq(batch, LAMBDA id : kind(id) = "no_primary"),
                             !.no_end_year_ids =
                                 @ \o SelectSeq(batch, LAMBDA id : kind(id) = "no_end_year")]
                /\ processed_count' = processed_count + Len(batch)
                /\ batch_num' = batch_num + 1

\* one iteration of "for student in cursor" of student_education.main
se_Record ==
    /\ script = "student_education"
    /\ pc = "scan"
    /\ cursor_pos < Len(find("with_education"))
    /\ LET batch == Append(current_batch,
                           find("with_education")[cursor_pos + 1])
       IN  IF Len(batch) >= batch_size
           THEN /\ se_flush(batch)
                /\ current_batch' = IF batch_raises(batch) THEN batch ELSE <<>>
                /\ IF batch_raises(batch)
                   THEN TRUE
                   ELSE UNCHANGED <<pc, error>>
           ELSE /\ current_batch' = batch
                /\ UNCHANGED <<acc, classified, processed_count, batch_num,
                               pc, error>>
    /\ cursor_pos' = cursor_pos + 1
    /\ UNCHANGED <<inputs, context, total_documents, all_results, summary_data, output,
                   output_written>>

\* student_education.main after the loop: the remaining batch, then the
\* second process_resumes call
se_FinishScan ==
    /\ script = "student_education"
    /\ pc = "scan"
    /\ cursor_pos >= Len(find("with_education"))
    /\ IF current_batch # <<>>
       THEN /\ se_flush(current_batch)
            /\ IF batch_raises(current_batch)
               THEN TRUE
               ELSE pc' = "resumes_no_primary" /\ error' = error
       ELSE /\ pc' = "resumes_no_primary"
            /\ UNCHANGED <<acc, classified, processed_count, batch_num, error>>
    /\ UNCHANGED <<inputs, context, total_documents, cursor_pos, current_batch,
                   all_results, summary_data, output, output_written>>

(***************************************************************************)
(* linkedin.py: a module-level script, no try and no finally               *)
(***************************************************************************)
\* list(collection.find(query, projection)), the CSV rows, the prints; the
\* script ends without closing the client
linkedin_Export ==
    /\ script = "linkedin"
    /\ pc = "start"
    /\ LET students == find("linkedin")
       IN  /\ output' = [i \in 1..Len(students) |->
                            [student_id |-> students[i],
                             linkedin_url |-> store[students[i]].linkedin_url]]
           /\ processed_count' = Len(students)
           /\ classified' = students
    /\ output_written' = TRUE
    /\ pc' = "exit"
    /\ UNCHANGED <<inputs, context, total_documents, batch_num, cursor_pos,
                   current_batch, all_results, acc, summary_data, error>>

(***************************************************************************)
(* no_skill_resume.py: students without skills and their resume links      *)
(***************************************************************************)
\* the CSV header, the counters, count_documents(zero_skills_query)
nsr_Start ==
    /\ script = "no_skill_resume"
    /\ pc = "start"
    /\ output' = <<>>
    /\ output_written' = TRUE
    /\ total_documents' = Len(find("zero_skills"))
    /\ pc' = "scan"
    /\ UNCHANGED <<inputs, context, batch_num, cursor_pos, current_batch,
                   processed_count, all_results, classified, acc, summary_data,
                   error>>

\* resume_collection.find({"user_id": {"$in": student_ids}}): the user_id
\* of every resume document of these students
resume_find(student_ids) ==
    SelectSeq(resumes, LAMBDA user_id : user_id \in Range(student_ids))

\* process_resume_batch and the counter updates that follow it
nsr_flush(batch) ==
    LET found == resume_find(batch)
    IN  /\ output' = output \o found
        /\ acc' = [acc EXCEPT !.total_with_resumes = @ + Len(found),
                              !.total_zero_skills = @ + 1]
        /\ processed_count' = processed_count + Len(batch)

\* one iteration of "for student in cursor" of no_skill_resume.main
nsr_Record ==
    /\ script = "no_skill_resume"
    /\ pc = "scan"
    /\ cursor_pos < Len(find("zero_skills"))
    /\ LET id == find("zero_skills")[cursor_pos + 1]
           batch == Append(current_batch, id)
       IN  /\ classified' = Append(classified, id)
           /\ IF Len(batch) >= batch_size
              THEN /\ nsr_flush(batch)
                   /\ current_batch' = <<>>
                   /\ batch_num' = batch_num + 1
              ELSE /\ current_batch' = batch
                   /\ acc' = [acc EXCEPT !.total_zero_skills = @ + 1]
                   /\ UNCHANGED <<output, processed_count, batch_num>>
    /\ cursor_pos' = cursor_pos + 1
    /\ UNCHANGED <<inputs, context, pc, total_documents, all_results,
                   summary_data, output_written, error>>

\* no_skill_resume.main after the loop: the remaining batch and the summary
nsr_Finish ==
    /\ script = "no_skill_resume"
    /\ pc = "scan"
    /\ cursor_pos >= Len(find("zero_skills"))
    /\ LET found == resume_find(current_batch)
       IN  /\ output' = output \o found
           /\ acc' = [acc EXCEPT !.total_with_resumes = @ + Len(found)]
           /\ processed_count' = processed_count + Len(current_batch)
    /\ pc' = "done"
    /\ UNCHANGED <<inputs, context, total_documents, batch_num, cursor_pos,
                   current_batch, all_results, classified, summary_data,
                   output_written, error>>

(***************************************************************************)
(* skill_from_resume.py: the importer of combined_skill_data.csv           *)
(***************************************************************************)
\* str.strip(): the text without leading and trailing white space
strip(s) ==
    LET ink == {i \in 1..Len(s) : s[i] # " "}
    IN  IF ink = {} THEN <<>>
        ELSE SubSeq(s, CHOOSE i \in ink : \A j \in ink : i <= j,
                       CHOOSE i \in ink : \A j \in ink : i >= j)

\* str.split(','): the pieces between the delimiters, empty ones included
RECURSIVE split(_)
split(s) ==
    LET commas == {i \in 1..Len(s) : s[i] = ","}
    IN  IF commas = {} THEN <<s>>
        ELSE LET i == CHOOSE c \in commas : \A d \in commas : c <= d
             IN  <<SubSeq(s, 1, i - 1)>> \o split(SubSeq(s, i + 1, Len(s)))

\* str.lower()
lower(s) == [i \in 1..Len(s) |-> IF s[i] = "A" THEN "a" ELSE s[i]]

\* [skill.strip() for skill in skills_string.split(',') if skill.strip()]
skill_names(skills_string) ==
    LET pieces == split(skills_string)
        kept == SelectSeq(pieces, LAMBDA piece : strip(piece) # <<>>)
    IN  [i \in 1..Len(kept) |-> strip(kept[i])]

\* a version that drops a name it has already seen
skill_names_distinct(skills_string) ==
    LET names == skill_names(skills_string)
        first == {i \in 1..Len(names) :
                    \A j \in 1..(i - 1) : lower(names[j]) # lower(names[i])}
        F[n \in 0..Len(names)] ==
            IF n = 0 THEN <<>>
            ELSE IF n \in first THEN Append(F[n - 1], names[n]) ELSE F[n - 1]
    IN  F[Len(names)]

\* the skills_array built from the names
skills_array(skills_string) ==
    LET names == skill_names(skills_string)
    IN  [i \in 1..Len(names) |-> SkillEntry(lower(names[i]), 2)]

\* pd.isna(skills_string) or not skills_string.strip(); calling strip on a
\* number raises AttributeError
no_skills_data(cell) ==
    cell.t = "nan" \/ (cell.t = "str" /\ strip(cell.s) = <<>>)

\* a version of the update that appends to the skills already stored
set_skills_merge(student, array) ==
    [student EXCEPT !.skills =
        List((IF student.skills.k = "list" THEN student.skills.v ELSE <<>>)
                 \o array)]

\* {"$set": {"skills": skills_array}} applied to the matched document
set_skills(student, array) == [student EXCEPT !.skills = List(array)]

\* a version of the loop body that lets a malformed identifier pass as a
\* row without a document
row_result_lenient(row, update_raises) ==
    IF no_skills_data(row.skills) THEN "continue"
    ELSE IF row.skills.t = "num" THEN "error"
    ELSE IF row.student_id.kind = "malformed" THEN "no_document"
    ELSE IF update_raises THEN "error"
    ELSE IF row.student_id.n \notin 1..Len(store) THEN "no_document"
    ELSE IF set_skills(store[row.student_id.n], skills_array(row.skills.s))
                = store[row.student_id.n] THEN "no_document"
    ELSE "updated"

\* what one pass of the loop body does with a row: "continue" (line 34),
\* "error" (the except clause of line 67), "updated" (modified_count > 0)
\* or "no_document" (the else branch of line 64); update_one matches no
\* document for an unknown _id and modifies none when the stored value
\* already equals the new one
row_result(row, update_raises) ==
    IF no_skills_data(row.skills) THEN "continue"
    ELSE IF row.skills.t = "num" THEN "error"
    ELSE IF row.student_id.kind = "malformed" THEN "error"
    ELSE IF update_raises THEN "error"
    ELSE IF row.student_id.n \notin 1..Len(store) THEN "no_document"
    ELSE IF set_skills(store[row.student_id.n], skills_array(row.skills.s))
                = store[row.student_id.n] THEN "no_document"
    ELSE "updated"

\* update_one was called, did not raise and matched a document
update_matched(row, update_raises) ==
    /\ row_result(row, update_raises) \in {"updated", "no_document"}
    /\ row.student_id.n \in 1..Len(store)

\* pd.read_csv and the two counters
import_Start ==
    /\ script = "skill_from_resume"
    /\ pc = "start"
    /\ total_documents' = Len(df)
    /\ pc' = "scan"
    /\ UNCHANGED <<inputs, context, batch_num, cursor_pos, current_batch,
                   processed_count, all_results, classified, acc, summary_data,
                   output, output_written, error>>

\* one iteration of "for _, row in df.iterrows()", its try and its except
import_Row ==
    /\ script = "skill_from_resume"
    /\ pc = "scan"
    /\ cursor_pos < Len(df)
    /\ \E update_raises \in BOOLEAN :
          LET row == df[cursor_pos + 1]
              result == row_result(row, update_raises)
              built == IF row.skills.t = "str" /\ ~no_skills_data(row.skills)
                       THEN skills_array(row.skills.s) ELSE <<>>
          IN  /\ store' = IF update_matched(row, update_raises)
                          THEN [store EXCEPT ![row.student_id.n] =
                                   set_skills(@, skills_array(row.skills.s))]
                          ELSE store
              /\ acc' = [acc EXCEPT
                            !.update_count =
                                IF result = "updated" THEN @ + 1 ELSE @,
                            !.error_count =
                                IF result = "error" THEN @ + 1 ELSE @,
                            !.rows = Append(@, [result |-> result,
                                                skills_array |-> built])]
    /\ cursor_pos' = cursor_pos + 1
    /\ UNCHANGED <<script, resumes, batch_size, context, pc, total_documents,
                   batch_num, current_batch, processed_count, all_results,
                   classified, summary_data, output, output_written, error>>

\* the print after the loop
import_Finish ==
    /\ script = "skill_from_resume"
    /\ pc = "scan"
    /\ cursor_pos >= Len(df)
    /\ pc' = "done"
    /\ UNCHANGED <<inputs, context, total_documents, batch_num, cursor_pos,
                   current_batch, processed_count, all_results, classified,
                   acc, summary_data, output, output_written, error>>

(***************************************************************************)
(* extract_skill.py and extract_education.py: process_csv                  *)
(***************************************************************************)
\* a version that keeps the punctuation of the text
normalize_text_keep(text) == strip(lower(text))

\* re.sub(r'[^a-zA-Z0-9\s]', '', text).lower().strip()
normalize_text(text) ==
    strip(lower(SelectSeq(text, LAMBDA c : c \notin {","})))

\* parsed_data.get(key, []) or []
list_or_empty(value) == IF value.k = "list" THEN value.v ELSE <<>>

\* skills.union(tech_skills): the normalised names of the skills section
\* and of the technologies of every project
all_skills(parsed_data) ==
    {normalize_text(skill) : skill \in Range(list_or_empty(parsed_data.skill))}
    \cup
    UNION {{normalize_text(tech) :
               tech \in Range(list_or_empty(proj.technologies_used))} :
              proj \in Range(list_or_empty(parsed_data.projects))}

\* ", ".join(names)
join(names) ==
    LET F[n \in 0..Len(names)] ==
            IF n = 0 THEN <<>>
            ELSE IF n = 1 THEN names[1]
            ELSE F[n - 1] \o <<",", " ">> \o names[n]
    IN  F[Len(names)]

\* the orders in which a set may be iterated
Orderings(S) == {f \in [1..Cardinality(S) -> S] : Range(f) = S}

\* extract_skills(parsed_data): the strings it may return, one for each
\* iteration order of the set all_skills
extract_skills(parsed_data) ==
    IF all_skills(parsed_data) = {} THEN {<<>>}
    ELSE {join(names) : names \in Orderings(all_skills(parsed_data))}

\* key=lambda x: x.get('year', 0) if x.get('year') is not None else 0
year_key(degree) ==
    IF degree.year.t \in {"absent", "none"} THEN 0 ELSE degree.year.s[1]

\* dict.get(key, default) of a value of the entry
get_or(value, default) == IF value = Missing THEN default ELSE value

\* a max that keeps the last entry among equal years
max_by_year_last(degrees) ==
    degrees[CHOOSE i \in 1..Len(degrees) :
                /\ \A j \in 1..Len(degrees) :
                      year_key(degrees[j]) <= year_key(degrees[i])
                /\ \A j \in (i + 1)..Len(degrees) :
                      year_key(degrees[j]) < year_key(degrees[i])]

\* max(degrees, key=...): the first entry with the greatest key
max_by_year(degrees) ==
    degrees[CHOOSE i \in 1..Len(degrees) :
                /\ \A j \in 1..Len(degrees) :
                      year_key(degrees[j]) <= year_key(degrees[i])
                /\ \A j \in 1..(i - 1) :
                      year_key(degrees[j]) < year_key(degrees[i])]

\* bool(highest_degree): a dict without keys is false
degree_truthy(degree) ==
    \E key \in DOMAIN degree : degree[key] # Missing

\* extract_highest_education(parsed_data): (degree_name, institution, year)
extract_highest_education(parsed_data) ==
    LET degrees == IF parsed_data.degree.k = "absent" THEN List(<<>>)
                   ELSE parsed_data.degree
    IN  IF degrees.k # "list" \/ degrees.v = <<>>
        THEN <<PyNone, PyNone, PyNone>>
        ELSE LET highest_degree == max_by_year(degrees.v)
             IN  IF degree_truthy(highest_degree)
                 THEN <<get_or(highest_degree.degree_name, Str(<<>>)),
                        get_or(highest_degree.institution, Str(<<>>)),
                        get_or(highest_degree.year, Str(<<>>))>>
                 ELSE <<PyNone, PyNone, PyNone>>

\* the columns process_csv adds to the output frame
out_columns ==
    IF script = "extract_skill" THEN {"skills"}
    ELSE {"degree_name", "institution", "year"}

\* pd.notna(value)
notna(value) == value.t \notin {"nan", "none"}

\* a frame written by to_csv: None, NaN and '' all give an empty field
to_csv(frame) ==
    [i \in 1..Len(frame) |->
        [c \in DOMAIN frame[i] |->
            IF notna(frame[i][c]) THEN frame[i][c] ELSE Str(<<>>)]]

\* a file read by pd.read_csv: an empty field is NaN
read_csv(file) ==
    [i \in 1..Len(file) |->
        [c \in DOMAIN file[i] |->
            IF file[i][c] = Str(<<>>) THEN NaN ELSE file[i][c]]]

\* a check that finds no row processed
populated_never(row) == FALSE

\* "already processed": every output column of the row is not NaN
populated(row) == \A c \in out_columns : notna(row[c])

\* range(start_idx, min(end_idx, len(input_df))), or up to len(input_df)
slice_stop ==
    IF acc.end_idx = NoEnd THEN Len(df) ELSE Min(acc.end_idx, Len(df))

\* what the parser service may answer for the resume behind a link
parser(link) ==
    CASE script = "extract_skill" /\ link = Str(<<"r">>) -> SkillResumes
      [] script = "extract_skill" /\ link # Str(<<"r">>) -> SampleSkillResumes
      [] script = "extract_education" /\ link = Str(<<"r">>) -> DegreeResumes
      [] script = "extract_education" /\ link # Str(<<"r">>) ->
            SampleDegreeResumes

\* a failure that hands back an answer with content
parsed_on_failure_full ==
    Parsed(List(<<<<"a">>>>), Absent,
           List(<<[degree_name |-> Str(<<"B">>), institution |-> Str(<<"X">>),
                   year |-> PyInt(2021)]>>))

\* fetch_and_parse_resume returns {} after an exception or a non-200 reply
parsed_on_failure == EmptyParse

\* the values process_csv may write for the row, given the parser's answer
extracted_rows(parsed_data) ==
    IF script = "extract_skill"
    THEN {[skills |-> Str(text)] : text \in extract_skills(parsed_data)}
    ELSE LET highest == extract_highest_education(parsed_data)
         IN  {[degree_name |-> highest[1], institution |-> highest[2],
               year |-> highest[3]]}

\* process_csv up to the loop: read the input, load or create the output
\* frame, compute the range
extract_Start ==
    /\ script \in ExtractScripts
    /\ pc = "start"
    /\ acc' = [acc EXCEPT
                 !.output_df =
                     IF output_written /\ Len(output) = Len(df)
                     THEN read_csv(output)
                     ELSE [i \in 1..Len(df) |-> [c \in out_columns |-> PyNone]]]
    /\ pc' = "rows"
    /\ UNCHANGED <<inputs, context, total_documents, batch_num, cursor_pos,
                   current_batch, processed_count, all_results, classified,
                   summary_data, output, output_written, error>>

\* one pass of "for index in slice_indices"
extract_Row ==
    /\ script \in ExtractScripts
    /\ pc = "rows"
    /\ acc.index < slice_stop
    /\ LET index == acc.index
           skip(event) ==
               /\ acc' = [acc EXCEPT !.index = index + 1,
                                     !.log = Append(@, <<index, event>>)]
               /\ UNCHANGED <<output, output_written>>
       IN  IF populated(acc.output_df[index + 1])
           THEN skip("already")
           ELSE IF df[index + 1].resume_link = NaN
           THEN skip("no_link")
           ELSE \E failed \in BOOLEAN :
                \E parsed_data \in IF failed THEN {parsed_on_failure}
                                   ELSE parser(df[index + 1].resume_link) :
                \E row \in extracted_rows(parsed_data) :
                   /\ acc' = [acc EXCEPT
                                !.index = index + 1,
                                !.output_df[index + 1] = row,
                                !.parsed_data = parsed_data,
                                !.extracted = row,
                                !.fetched = Append(@, index),
                                !.log = @ \o
                                    (IF failed THEN <<<<index, "failed">>>>
                                     ELSE <<>>) \o
                                    <<<<index, "processed">>>>]
                   /\ output' = to_csv(acc'.output_df)
                   /\ output_written' = TRUE
    /\ UNCHANGED <<inputs, context, pc, total_documents, batch_num, cursor_pos,
                   current_batch, processed_count, all_results, classified,
                   summary_data, error>>

\* the final save after the loop
extract_Finish ==
    /\ script \in ExtractScripts
    /\ pc = "rows"
    /\ acc.index >= slice_stop
    /\ output' = to_csv(acc.output_df)
    /\ output_written' = TRUE
    /\ pc' = "exit"
    /\ UNCHANGED <<inputs, context, total_documents, batch_num, cursor_pos,
                   current_batch, processed_count, all_results, classified,
                   acc, summary_data, error>>

\* ranges of a second run of the script
RerunSlices == {<<0, NoEnd>>, <<1, NoEnd>>}

\* the script is run again with another range: the output file of the
\* first run is on disk, the input file is the same
process_csv_again ==
    /\ script \in ExtractScripts
    /\ pc = "exit"
    /\ run = 1
    /\ df \in InputFrames
    /\ run' = 2
    /\ first_output' = [written |-> output_written, rows |-> output,
                        acc |-> [fetched |-> acc.fetched]]
    /\ \E slice \in RerunSlices : acc' = ExtractAcc(slice)
    /\ pc' = "start"
    /\ UNCHANGED <<inputs, client, live, changes, fetching, page, acc_writers,
                   df, total_documents, batch_num, cursor_pos, current_batch,
                   processed_count, all_results, classified, summary_data,
                   output, output_written, error>>

(***************************************************************************)
(* college_with_missing_grad.py: the aggregation pipeline                  *)
(***************************************************************************)
\* $unwind: one element for each entry of each document's education_records
\* (none for a missing, null or empty list), as <<document, position>>
unwind(documents) ==
    {<<d, e>> \in (1..Len(documents)) \X (1..MaxEdu) :
        /\ documents[d].education_records.k = "list"
        /\ e <= Len(documents[d].education_records.v)}

unwound(documents, at) == documents[at[1]].education_records.v[at[2]]

\* $match: is_primary is true and end_year is "", null or missing
match(entry) ==
    /\ entry.is_primary = "True"
    /\ entry.end_year \in {"", "<null>", "<absent>"}

\* the _id of $group
group_id(entry) ==
    <<entry.college_id, entry.college_name, entry.is_college_registered>>

\* $cond on a value: null, missing and false are false
cond(value) == value \notin {"False", "<null>", "<absent>"}

\* $group and $project: one row for each _id, with its $sum of 1
project(documents) ==
    LET matched == {at \in unwind(documents) : match(unwound(documents, at))}
        ids == {group_id(unwound(documents, at)) : at \in matched}
    IN  {[college_id |-> id[1], college_name |-> id[2],
          is_registered |-> IF cond(id[3]) THEN "YES" ELSE "NO",
          students_missing_grad_year |->
              Cardinality({at \in matched :
                              group_id(unwound(documents, at)) = id})] :
            id \in ids}

\* $sort by students_missing_grad_year descending: the lists the server may
\* return (rows with equal counts come in any order)
aggregate(documents) ==
    {rows \in Orderings(project(documents)) :
        \A k \in 1..(Len(rows) - 1) :
            rows[k].students_missing_grad_year >=
                rows[k + 1].students_missing_grad_year}

\* line 58: collection is the str of line 7, which has no aggregate; the
\* AttributeError is raised outside the try statement, so the script ends
\* there: no CSV file, and the finally clause with client.close() never runs
cmg_Aggregate ==
    /\ script = "college_with_missing_grad"
    /\ pc = "start"
    /\ error' = "AttributeError"
    /\ pc' = "exit"
    /\ UNCHANGED <<inputs, context, total_documents, batch_num, cursor_pos,
                   current_batch, processed_count, all_results, classified,
                   acc, summary_data, output, output_written>>

Next ==
    \/ connect_to_mongodb
    \/ connect_fails
    \/ main_finally
    \/ main_again
    \/ other_insert
    \/ other_delete
    \/ SL_Start
    \/ SL_Fetch
    \/ SL_FetchFails
    \/ cc_ScanBatch
    \/ counts_ScanBatch
    \/ cs_ScanBatch
    \/ cc_Summarize
    \/ cc_WriteFails
    \/ cs_Summarize
    \/ counts_Summarize
    \/ Cursor_Start
    \/ skill_Record
    \/ skill_Finish
    \/ sy_Record
    \/ sy_Finish
    \/ ns_Record
    \/ ns_Finish
    \/ ec_Start
    \/ ec_Record
    \/ ec_Finish
    \/ se_Start
    \/ se_ResumeSlice
    \/ se_ResumesReturn
    \/ se_Record
    \/ se_FinishScan
    \/ linkedin_Export
    \/ nsr_Start
    \/ nsr_Record
    \/ nsr_Finish
    \/ import_Start
    \/ import_Row
    \/ import_Finish
    \/ extract_Start
    \/ extract_Row
    \/ extract_Finish
    \/ process_csv_again
    \/ cmg_Aggregate

Spec == Init /\ [][Next]_vars

(***************************************************************************)
(* Properties                                                              *)
(***************************************************************************)
all_ids == [i \in 1..Len(store) |-> i]

\* the document whose classification is all_results[i]
student_of(i) == document(classified[i])

\* a field that exists and holds a list with at least one element
NonEmptyList(f) == f.k = "list" /\ Len(f.v) >= 1

\* education entries of a document, none when the field is not a list
EntriesOf(student) ==
    IF student.education_records.k = "list"
    THEN student.education_records.v ELSE <<>>

\* entries with is_primary == true and a non-empty college name
Qualifying(student) ==
    {j \in 1..Len(EntriesOf(student)) :
        /\ EntriesOf(student)[j].is_primary = "True"
        /\ EntriesOf(student)[j].college_name \notin {"<absent>", ""}}

FirstOf(S) == CHOOSE j \in S : \A k \in S : j <= k

\* exceptions that come from the store or the file system, not from the data
StoreFailures == {"ServerSelectionTimeoutError", "AutoReconnect", "OSError"}

\* the run was not stopped by such a failure, and no other process wrote to
\* the collection while it ran
Undisturbed == error \notin StoreFailures /\ changes = 0

\* C1: against an unchanged store both reader shapes hand every matching
\* record to the classifier exactly once and process exactly N records: the
\* skip/limit loop of college_counts.main, the cursor batching loop of
\* education_count.main, and the slices of student_education.process_resumes.
C1_EveryRecordOnce ==
    (pc = "done" /\ Undisturbed) =>
        /\ script = "college_counts" =>
              classified = all_ids /\ processed_count = Len(store)
        /\ script = "education_count" =>
              /\ classified = find("with_education")
              /\ processed_count = Len(find("with_education"))
        /\ script = "student_education" =>
              \A i \in 1..Len(acc.returned) :
                  /\ acc.returned[i].queried = acc.returned[i].student_ids
                  /\ acc.returned[i].processed = Len(acc.returned[i].student_ids)

\* C2: after a run of counts.main that the store did not interrupt, have +
\* have_not == total_processed for each of the five features, and no
\* exception was raised, the empty store included.
C2_TotalsAndNoException ==
    (script = "counts" /\ pc = "done" /\ Undisturbed) =>
        /\ error = "none"
        /\ \A c \in Range(counts_categories) :
              acc[c].have + acc[c].have_not = acc.total_processed

RowNames(rows) == {rows[i].College_Name : i \in 1..Len(rows)}

ClassifiedAs(college) ==
    {i \in 1..Len(classified) : get_college_name(student_of(i)) = college}

SumTotals(rows) ==
    LET S[i \in 0..Len(rows)] ==
            IF i = 0 THEN 0 ELSE S[i - 1] + rows[i].Total_Students
    IN  S[Len(rows)]

\* C3: college_counts.main produces exactly one aggregate row per distinct
\* college name returned by get_college_name over the processed records; in
\* each row Have X + No X == Total Students, each Have X is the exact number
\* of that college's records whose flag is true, and the Total Students
\* values sum to the number of records processed.  (The rows of
\* college_skill.main are grouped the same way.)  The records processed are
\* those the pages returned; a run stopped by a store failure has no rows.
C3_OneExactRowPerCollege ==
    (/\ script \in {"college_counts", "college_skill"}
     /\ pc = "done"
     /\ error \notin {"ServerSelectionTimeoutError", "AutoReconnect"}) =>
        /\ RowNames(summary_data) =
              {get_college_name(student_of(i)) : i \in 1..Len(classified)}
        /\ Cardinality(RowNames(summary_data)) = Len(summary_data)
        /\ SumTotals(summary_data) = processed_count
        /\ processed_count = Len(classified)
        /\ output_written => RowNames(output) = RowNames(summary_data)
                             /\ Len(output) = Len(summary_data)
        /\ \A r \in 1..Len(summary_data) :
              LET row == summary_data[r]
                  mine == ClassifiedAs(row.College_Name)
                  n(flag) == Cardinality({i \in mine :
                                cc_analyze_student_record(student_of(i))[flag]})
              IN  /\ row.Total_Students = Cardinality(mine)
                  /\ script = "college_counts" =>
                        /\ row.Have_Projects = n("has_projects")
                        /\ row.Have_Experience = n("has_experience")
                        /\ row.Have_Achievements = n("has_achievements")
                        /\ row.Have_Skills = n("has_skills")
                        /\ row.Have_Grade = n("has_grade")
                        /\ row.Have_Projects + row.No_Projects = row.Total_Students
                        /\ row.Have_Experience + row.No_Experience = row.Total_Students
                        /\ row.Have_Achievements + row.No_Achievements
                              = row.Total_Students
                        /\ row.Have_Skills + row.No_Skills = row.Total_Students
                        /\ row.Have_Grade + row.No_Grade = row.Total_Students

\* a run of college_counts.main that wrote two rows, one of them for a
\* college with two students
C3_Witness ==
    /\ script = "college_counts"
    /\ pc = "done"
    /\ output_written
    /\ Len(output) >= 2
    /\ \E r \in 1..Len(output) :
          output[r].Total_Students >= 2 /\ output[r].Have_Grade = 1

\* number of skill entries of a document: 0 when the field is absent, null
\* or []
SkillCount(student) ==
    IF student.skills.k = "list" THEN Len(student.skills.v) ELSE 0

\* the five bands of the contract
Band(n) ==
    CASE n = 0 -> "0 skills"
      [] n \in 1..3 -> "1-3 skills"
      [] n \in 4..6 -> "4-6 skills"
      [] n \in 7..10 -> "7-10 skills"
      [] n >= 11 -> "10+ skills"

\* C4: for every skill count n the banding gives n=0 -> "0 skills", 1..3 ->
\* "1-3 skills", 4..6 -> "4-6 skills", 7..10 -> "7-10 skills", n>=11 ->
\* "10+ skills"; the three copies (college_skill.analyze_student_record,
\* skill.main, skill_year.main) agree; a record whose skills field is
\* absent, null or [] has count 0 and band "0 skills".
C4_SkillBands ==
    /\ \A id \in 1..Len(store) :
          LET n == get_skills_count(store[id])
          IN  /\ n = SkillCount(store[id])
              /\ cs_skills_category(n) = Band(n)
              /\ skill_category(n) = Band(n)
              /\ sy_skill_category(n) = Band(n)
    /\ script = "college_skill" =>
          \A i \in 1..Len(all_results) :
              /\ all_results[i].skills_count = SkillCount(student_of(i))
              /\ all_results[i].skills_category = Band(SkillCount(student_of(i)))
    /\ script \in {"skill", "skill_year"} =>
          \A c \in Range(skills_categories) :
              acc.skill_categories[c] =
                  Cardinality({i \in 1..Len(classified) :
                                  Band(SkillCount(student_of(i))) = c})

\* a run of college_skill.main that banded a document with 11 skills and a
\* document whose skills field is null
C4_Witness ==
    /\ script = "college_skill"
    /\ pc = "done"
    /\ \E i \in 1..Len(all_results) :
          /\ student_of(i).skills.k = "null"
          /\ all_results[i].skills_category = "0 skills"
    /\ \E i \in 1..Len(all_results) :
          /\ all_results[i].skills_count = 11
          /\ all_results[i].skills_category = "10+ skills"

\* C5 as stated: get_college_name returns the college_name of the first
\* entry that has is_primary == true and a non-empty college_name, and it
\* returns "Unknown" if and only if no entry satisfies both conditions.
C5_UnknownIffNoPrimaryCollege ==
    script \in {"college_counts", "college_skill"} =>
        \A i \in 1..Len(all_results) :
            LET q == Qualifying(student_of(i))
                got == all_results[i].college_name
            IN  /\ q # {} => got = EntriesOf(student_of(i))[FirstOf(q)].college_name
                /\ got = "Unknown" <=> q = {}

\* C5 amended: get_college_name returns the college_name of the first entry
\* that has is_primary == true and a non-empty college_name; it returns
\* "Unknown" when no entry satisfies both conditions, and otherwise only
\* when that first entry's college_name is itself the string "Unknown"; the
\* result is always a college name present in the record or "Unknown".
C5_FirstPrimaryCollege ==
    script \in {"college_counts", "college_skill"} =>
        \A i \in 1..Len(all_results) :
            LET es == EntriesOf(student_of(i))
                q == Qualifying(student_of(i))
                got == all_results[i].college_name
            IN  /\ q # {} => got = es[FirstOf(q)].college_name
                /\ q = {} => got = "Unknown"
                /\ got = "Unknown" =>
                      q = {} \/ es[FirstOf(q)].college_name = "Unknown"
                /\ got = "Unknown" \/ \E j \in 1..Len(es) : es[j].college_name = got

\* a document with two qualifying entries of different names was classified
\* with the name of the first
C5_Witness ==
    /\ script = "college_counts"
    /\ \E i \in 1..Len(all_results) :
          LET es == EntriesOf(student_of(i))
          IN  /\ Len(es) = 2
              /\ Qualifying(student_of(i)) = {1, 2}
              /\ es[1].college_name # es[2].college_name
              /\ all_results[i].college_name = es[1].college_name

\* primary-flagged entries of the documents handed to process_batch
PrimaryEntriesSeen ==
    LET S[i \in 0..Len(classified)] ==
            IF i = 0 THEN 0
            ELSE S[i - 1] + Cardinality(
                    {j \in 1..Len(EntriesOf(student_of(i))) :
                        EntriesOf(student_of(i))[j].is_primary \in {"True", "1"}})
    IN  S[Len(classified)]

\* C6: education_count.process_batch counts every primary-flagged entry in
\* exactly one bucket ("2026", "2027", or special for every other end_year),
\* so 2026-count + 2027-count + special_count equals the number of
\* primary-flagged entries processed.
C6_EveryPrimaryEntryBucketed ==
    (script = "education_count" /\ pc = "done" /\ error = "none") =>
        acc.y2026 + acc.y2027 + acc.special_count = PrimaryEntriesSeen

\* C7: each per-record flag of analyze_student_record is "have"/true iff the
\* corresponding collection exists and has at least one element (for
\* achievements: achievements or awards); absent, null and [] give
\* "have_not"/false.
C7_FlagIffNonEmpty ==
    /\ script = "college_counts" =>
          \A i \in 1..Len(all_results) :
              LET st == student_of(i)
                  r == all_results[i]
              IN  /\ r.has_projects <=> NonEmptyList(st.projects)
                  /\ r.has_experience <=> NonEmptyList(st.work_experiences)
                  /\ r.has_skills <=> NonEmptyList(st.skills)
                  /\ r.has_achievements <=>
                        NonEmptyList(st.achievements) \/ NonEmptyList(st.awards)
    /\ script = "counts" =>
          \A i \in 1..Len(all_results) :
              LET st == student_of(i)
                  r == all_results[i]
              IN  /\ r.projects = "have" <=> NonEmptyList(st.projects)
                  /\ r.work_experience = "have" <=> NonEmptyList(st.work_experiences)
                  /\ r.skills = "have" <=> NonEmptyList(st.skills)
                  /\ r.achievements = "have" <=>
                        NonEmptyList(st.achievements) \/ NonEmptyList(st.awards)
                  /\ \A c \in Range(counts_categories) :
                        r[c] \in {"have", "have_not"}

\* a document with null achievements, non-empty awards and projects = []
\* was classified by college_counts
C7_Witness ==
    /\ script = "college_counts"
    /\ \E i \in 1..Len(all_results) :
          /\ student_of(i).achievements.k = "null"
          /\ NonEmptyList(student_of(i).awards)
          /\ student_of(i).projects = List(<<>>)
          /\ all_results[i].has_achievements
          /\ ~all_results[i].has_projects

HasPrimaryGrade(student) ==
    \E j \in 1..Len(EntriesOf(student)) :
        /\ EntriesOf(student)[j].is_primary = "True"
        /\ EntriesOf(student)[j].performance # "<absent>"

\* C8: has_grade is true iff at least one education entry has is_primary ==
\* true and a performance that is not null; a record with no
\* education_records field is classified college "Unknown", has_grade false.
C8_GradeIffPrimaryPerformance ==
    /\ script = "college_counts" =>
          \A i \in 1..Len(all_results) :
              /\ all_results[i].has_grade <=> HasPrimaryGrade(student_of(i))
              /\ student_of(i).education_records.k = "absent" =>
                    /\ all_results[i].college_name = "Unknown"
                    /\ ~all_results[i].has_grade
    /\ script = "counts" =>
          \A i \in 1..Len(all_results) :
              all_results[i].grade = "have" <=> HasPrimaryGrade(student_of(i))

\* a document whose second entry is the only primary one with a performance
\* was classified as having a grade
C8_Witness ==
    /\ script = "college_counts"
    /\ \E i \in 1..Len(all_results) :
          LET es == EntriesOf(student_of(i))
          IN  /\ Len(es) = 2
              /\ es[1].is_primary = "1" /\ es[1].performance # "<absent>"
              /\ es[2].is_primary = "True" /\ es[2].performance # "<absent>"
              /\ all_results[i].has_grade

\* C9: a report run against a store with zero records completes without
\* raising and writes its output (college_counts, counts, college_skill,
\* skill, no_skill).
C9_EmptyStoreCompletes ==
    (/\ script \in {"college_counts", "counts", "college_skill", "skill", "no_skill"}
     /\ store = <<>>
     /\ pc = "done"
     /\ Undisturbed) =>
        error = "none"

\* C10: no per-record classification raises for a record whose collection
\* fields are missing, null or empty: college_counts.analyze_student_record,
\* education_count.process_batch, the education loop of skill_year.main and
\* student_education.process_education_batch classify it and the run
\* continues.
C10_ClassificationNeverRaises ==
    script \in {"college_counts", "education_count", "skill_year",
                "student_education"} =>
        error # "TypeError"

\* the document with an absent field replaced by [], and the reverse
as_empty(student, key) ==
    IF student[key].k = "absent" THEN [student EXCEPT ![key] = List(<<>>)]
    ELSE student

as_absent(student, key) ==
    IF student[key] = List(<<>>) THEN [student EXCEPT ![key] = Absent]
    ELSE student

\* ids whose document, after the replacement, matches the filter
SelectedAsEmpty(filter, key) ==
    {id \in 1..Len(store) : matches(filter, as_empty(store[id], key))}

SelectedAsAbsent(filter, key) ==
    {id \in 1..Len(store) : matches(filter, as_absent(store[id], key))}

\* C11: replacing an absent collection field of a record by an empty list
\* (or the reverse) leaves the output unchanged: the rows linkedin.py
\* exports, the no-education count of education_count.main and the students
\* no_skill_resume.main finds are those of the store with the field
\* replaced either way.
C11_AbsentSameAsEmpty ==
    /\ (script = "linkedin" /\ pc = "exit") =>
          /\ Range(classified) = SelectedAsEmpty("linkedin", "education_records")
          /\ Range(classified) = SelectedAsAbsent("linkedin", "education_records")
    /\ (script = "education_count" /\ pc \notin {"connect", "start"}) =>
          /\ acc.no_education_records_count =
                Cardinality(SelectedAsEmpty("no_education", "education_records"))
          /\ acc.no_education_records_count =
                Cardinality(SelectedAsAbsent("no_education", "education_records"))
    /\ (script = "no_skill_resume" /\ pc = "exit") =>
          /\ Range(classified) = SelectedAsEmpty("zero_skills", "skills")
          /\ Range(classified) = SelectedAsAbsent("zero_skills", "skills")
          /\ acc.total_zero_skills = Cardinality(Range(classified))

\* the part of C11 that the code keeps: education_count.main and
\* no_skill_resume.main treat an absent field and [] alike
C11_HoldsOutsideLinkedin ==
    /\ (script = "education_count" /\ pc \notin {"connect", "start"}) =>
          /\ acc.no_education_records_count =
                Cardinality(SelectedAsEmpty("no_education", "education_records"))
          /\ acc.no_education_records_count =
                Cardinality(SelectedAsAbsent("no_education", "education_records"))
    /\ (script = "no_skill_resume" /\ pc = "exit") =>
          /\ Range(classified) = SelectedAsEmpty("zero_skills", "skills")
          /\ Range(classified) = SelectedAsAbsent("zero_skills", "skills")
          /\ acc.total_zero_skills = Cardinality(Range(classified))

\* the texts between consecutive delimiters of a skills cell
Pieces(s) ==
    LET cuts == {0, Len(s) + 1} \cup {i \in 1..Len(s) : s[i] = ","}
    IN  {SubSeq(s, i + 1, j - 1) :
            <<i, j>> \in {p \in cuts \X cuts :
                            /\ p[1] < p[2]
                            /\ \A c \in cuts : ~(p[1] < c /\ c < p[2])}}

\* the distinct non-empty tokens: trimmed, lower-cased
Tokens(s) == {lower(strip(piece)) : piece \in Pieces(s)} \ {<<>>}

\* rows of the CSV file whose skills cell was parsed into a list
ParsedRows ==
    {i \in 1..Len(acc.rows) :
        df[i].skills.t = "str" /\ acc.rows[i].result # "continue"}

\* C12: for every input skill string the resulting skill list contains one
\* entry per distinct non-empty token after splitting on ',', trimming and
\* lower-casing: no entry has an empty name, no two entries have the same
\* name, and every entry has rating 2, composite null and versions [].
C12_OneEntryPerDistinctToken ==
    script = "skill_from_resume" =>
        \A i \in ParsedRows :
            LET array == acc.rows[i].skills_array
            IN  /\ {array[j].name : j \in 1..Len(array)} = Tokens(df[i].skills.s)
                /\ Len(array) = Cardinality(Tokens(df[i].skills.s))
                /\ \A j \in 1..Len(array) :
                      /\ array[j].name # <<>>
                      /\ array[j].rating = 2
                      /\ array[j].composite = "null"
                      /\ array[j].versions = <<>>
                /\ \A j, k \in 1..Len(array) :
                      j # k => array[j].name # array[k].name

\* the part of C12 that the code keeps: every entry is a non-empty token
\* with the fixed rating and empty sub-fields, and every token has an entry
C12_EntriesAreTokens ==
    script = "skill_from_resume" =>
        \A i \in ParsedRows :
            LET array == acc.rows[i].skills_array
            IN  /\ {array[j].name : j \in 1..Len(array)} = Tokens(df[i].skills.s)
                /\ \A j \in 1..Len(array) :
                      /\ array[j].name # <<>>
                      /\ array[j].rating = 2
                      /\ array[j].composite = "null"
                      /\ array[j].versions = <<>>

\* C13: for every CSV row that the importer applies, the target record's
\* skills field after the update equals exactly the newly built list,
\* whatever the previous skills were; every other field of that record and
\* every record with another identifier are unchanged; a row that is not
\* applied changes nothing.
C13_UpdateReplacesSkillsOnly ==
    [][(script = "skill_from_resume" /\ cursor_pos' = cursor_pos + 1) =>
          LET row == df[cursor_pos + 1]
              n == row.student_id.n
              result == acc'.rows[cursor_pos + 1].result
              applied == /\ result \in {"updated", "no_document"}
                         /\ n \in 1..Len(store)
          IN  /\ Len(store') = Len(store)
              /\ applied =>
                    /\ store'[n].skills = List(skills_array(row.skills.s))
                    /\ \A f \in (DOMAIN store[n]) \ {"skills"} :
                          store'[n][f] = store[n][f]
                    /\ \A j \in (1..Len(store)) \ {n} : store'[j] = store[j]
              /\ ~applied => store' = store]_vars

\* a one-row file replaced the skills of the first document by the single
\* entry "a" of rating 2, and the second document still has its two entries
C13_Witness ==
    /\ script = "skill_from_resume"
    /\ pc = "done"
    /\ Len(df) = 1
    /\ df[1] = Row(Oid(1), Str(<<"a">>))
    /\ acc.rows[1].result = "updated"
    /\ store[1].skills = List(<<SkillEntry(<<"a">>, 2)>>)
    /\ store[1].projects = List(<<"x">>)
    /\ store[2].skills.k = "list" /\ Len(store[2].skills.v) = 2

\* a row whose processing raises for a reason the row itself carries: a
\* skills value that is a number, or a malformed identifier on a row that
\* has skills data
RowRaises(row) ==
    \/ row.skills.t = "num"
    \/ /\ row.skills.t = "str"
       /\ strip(row.skills.s) # <<>>
       /\ row.student_id.kind = "malformed"

C15_CountsPartitionRows ==
    (script = "skill_from_resume" /\ pc = "done") =>
        LET hit(i) == /\ acc.rows[i].result \in {"updated", "no_document"}
                      /\ df[i].student_id.n \in 1..Len(store)
        IN  /\ Len(acc.rows) = Len(df)
            /\ acc.update_count =
                  Cardinality({i \in 1..Len(df) : hit(i)})
            /\ acc.error_count =
                  Cardinality({i \in 1..Len(df) : acc.rows[i].result = "error"})
            /\ \A i \in 1..Len(df) :
                  /\ acc.rows[i].result = "continue" <=>
                        no_skills_data(df[i].skills)
                  /\ acc.rows[i].result = "no_document" =>
                        df[i].student_id.n \notin 1..Len(store)

\* the part of C15 that the code keeps: the counters count the rows
\* reported as updated and the rows that raised, and every row has exactly
\* one of the four outcomes
C15_CountsMatchReports ==
    (script = "skill_from_resume" /\ pc = "done") =>
        /\ Len(acc.rows) = Len(df)
        /\ acc.update_count =
              Cardinality({i \in 1..Len(df) : acc.rows[i].result = "updated"})
        /\ acc.error_count =
              Cardinality({i \in 1..Len(df) : acc.rows[i].result = "error"})
        /\ \A i \in 1..Len(df) :
              /\ acc.rows[i].result \in
                    {"updated", "error", "continue", "no_document"}
              /\ acc.rows[i].result = "continue" <=>
                    no_skills_data(df[i].skills)

\* C16: on every exit path of a run, in every script, every store client
\* that was created is closed exactly once, and no store operation is issued
\* after the close (the close is the last step of the run).
C16_ClientClosedOnEveryExit ==
    /\ pc = "exit" => client.state \in {"none", "closed"}
    /\ client.state = "closed" => pc = "exit"

\* the part of C16 that the code keeps: a client that main() itself bound
\* is closed by the finally clause on every exit path, once, as the last step
C16_BoundClientClosed ==
    /\ (pc = "exit" /\ client.bound /\ script # "linkedin") =>
          client.state = "closed"
    /\ client.state = "closed" => pc = "exit"

\* C17: if the connection attempt fails, or a page fetch raises in the
\* middle of the scan, college_counts.main fetches no further page, does not
\* retry the failed page, writes no summary CSV, logs the error and ends the
\* run; a file is written only by a run that merged every page.
C17_FailureEndsRunWithoutOutput ==
    [][script = "college_counts" =>
          /\ error' \in {"ServerSelectionTimeoutError", "AutoReconnect"} =>
                /\ pc' \in {"done", "exit"}
                /\ fetching' = {}
                /\ batch_num' = batch_num
                /\ classified' = classified
                /\ all_results' = all_results
                /\ ~output_written' /\ output' = <<>> /\ summary_data' = <<>>
          /\ error' = "ServerSelectionTimeoutError" =>
                classified' = <<>> /\ total_documents' = 0
          /\ output_written' =>
                /\ error' = "none"
                /\ batch_num' = total_batches
                /\ SumTotals(output') = Len(classified')]_vars

\* a run of college_counts.main whose second page fetch raised: the first
\* page had been merged, nothing was written, the run has ended
C17_Witness ==
    /\ script = "college_counts"
    /\ pc = "exit"
    /\ error = "AutoReconnect"
    /\ batch_num = 1
    /\ Len(all_results) >= 1
    /\ total_batches >= 2
    /\ ~output_written

\* C18: if records are inserted into or deleted from the collection between
\* the initial count_documents and the fetch of the last page, the scan of
\* college_counts.main still ends after exactly ceil(N0/P) page fetches,
\* raises no error, and writes its output file from whatever records the
\* pages returned.
C18_ScanToleratesChanges ==
    (/\ script = "college_counts"
     /\ pc = "done"
     /\ changes > 0
     /\ error \notin StoreFailures) =>
        /\ batch_num = (total_documents + batch_size - 1) \div batch_size
        /\ error = "none"
        /\ output_written
        /\ SumTotals(output) = Len(classified)

\* the part of C18 that the code keeps: the number of page fetches is fixed
\* by the initial count, and a file that is written holds the records the
\* pages returned
C18_FetchCountFixed ==
    (/\ script = "college_counts"
     /\ pc = "done"
     /\ changes > 0
     /\ error \notin StoreFailures) =>
        /\ batch_num = (total_documents + batch_size - 1) \div batch_size
        /\ output_written => SumTotals(output) = Len(classified)

\* classifications of the documents of the page in flight
PageResults ==
    [i \in 1..Len(page) |-> analyze_student_record(document(page[i]))]

\* C19: during the batched scan of college_counts.main, counts.main and
\* college_skill.main at most 4 page fetches are in flight at any time, and
\* the accumulator (all_results, processed_count) is modified only by the
\* orchestrating thread, in the step that ends the fetch of the page it
\* merges, with exactly the classifications of that page (a new call of
\* main starts with an accumulator of its own).
C19_OnlyLoopThreadWritesAccumulator ==
    [][(script \in SkipLimitScripts /\ run' = run) =>
          /\ Cardinality(fetching') <= max_workers
          /\ acc_writers' \subseteq {"MainThread"}
          /\ (all_results' # all_results \/ processed_count' # processed_count) =>
                /\ fetching = {batch_num}
                /\ fetching' = {}
                /\ acc_writers' = {"MainThread"}
                /\ processed_count' = processed_count + Len(page)
                /\ all_results' = all_results \o PageResults
      ]_vars

\* the scan of counts.main has merged its first page and the fetch of its
\* second page is in flight
C19_Witness ==
    /\ script = "counts"
    /\ pc = "scan"
    /\ fetching = {1}
    /\ Len(page) >= 1
    /\ Len(all_results) >= 1
    /\ acc_writers = {"MainThread"}

\* the permutations of 1..n
Perms(n) ==
    {f \in [1..n -> 1..n] : {f[i] : i \in 1..n} = 1..n}

\* the rows college_counts.main writes for a list of classifications
cc_report(results) ==
    LET colleges == unique(college_names(results))
    IN  sort_values([i \in 1..Len(colleges) |->
                        cc_college_summary(results, colleges[i])])

\* the rows counts.main writes for a list of classifications
counts_report(results) ==
    [i \in 1..Len(counts_categories) |->
        [field |-> counts_categories[i],
         have |-> counts_stats(results)[counts_categories[i]].have,
         have_not |-> counts_stats(results)[counts_categories[i]].have_not]]

\* C20: the final aggregate of college_counts.main and counts.main depends
\* only on the multiset of records read: the classifications of the same
\* records taken in any other order, whatever the page size, produce the
\* rows that were written, and college_counts writes them in ascending
\* College Name order.
C20_AggregateIsOrderIndependent ==
    (script \in {"college_counts", "counts"} /\ pc = "done" /\ output_written) =>
        /\ Len(all_results) = Len(classified)
        /\ \A p \in Perms(Len(all_results)) :
              LET results == [i \in 1..Len(all_results) |-> all_results[p[i]]]
              IN  IF script = "college_counts"
                  THEN cc_report(results) = output
                  ELSE counts_report(results) = output
        /\ script = "college_counts" =>
              \A r \in 1..(Len(output) - 1) :
                  name_rank(output[r].College_Name) <
                      name_rank(output[r + 1].College_Name)

\* college_counts.main read a student of college B before a student of
\* college A and wrote the row of A first
C20_Witness ==
    /\ script = "college_counts"
    /\ output_written
    /\ Len(output) >= 2
    /\ summary_data[1].College_Name = "B"
    /\ output[1].College_Name = "A"

(***************************************************************************)
(* C21: a second run against the unchanged store repeats the report        *)
(***************************************************************************)
\* C21: running college_counts or counts twice against an unchanged store
\* produces the same rows in the same order, and the module-level stats of
\* counts.py holds after the second call of main what it held after the
\* first.
C21_RerunGivesSameReport ==
    (script \in RerunScripts /\ run = 2 /\ changes = 0
        /\ output_written /\ first_output.written) =>
        /\ output = first_output.rows
        /\ script = "counts" => acc = first_output.acc

C21_Witness ==
    /\ run = 2
    /\ pc = "exit"
    /\ output_written
    /\ first_output.written
    /\ \/ script = "counts" /\ acc.skills.have > 0 /\ acc.projects.have_not > 0
       \/ script = "college_counts" /\ Len(output) = 2

(***************************************************************************)
(* C22: process_csv skips the rows its output file already holds           *)
(***************************************************************************)
\* the output frame as the second run loads it
Loaded == read_csv(first_output.rows)

\* row i (counted from 0) has a value in every output column of the file
HasValues(i) ==
    \A c \in DOMAIN Loaded[i + 1] : Loaded[i + 1][c].t \notin {"nan", "none"}

\* the rows of the range of this run
SliceRows == {i \in acc.start_idx..(slice_stop - 1) : i >= 0}

Ascending(indices) ==
    \A k \in 1..(Len(indices) - 1) : indices[k] < indices[k + 1]

\* a finished second run of process_csv
SecondRunDone == script \in ExtractScripts /\ run = 2 /\ pc = "exit"

Printed == SubSeq(acc'.log, Len(acc.log) + 1, Len(acc'.log))

\* the step is a pass of the loop whose fetch or parser call failed
FetchFailedInStep ==
    /\ script \in ExtractScripts
    /\ pc = "rows"
    /\ Len(acc'.log) > Len(acc.log)
    /\ <<acc.index, "failed">> \in Range(Printed)

\* the rows of the range the loop has visited, by the lines it printed
Visited == {acc.log[k][1] : k \in 1..Len(acc.log)}

\* C23: when the fetch or the parser call of a row fails, the failure is
\* printed, the saved output file has no value in any output column of the
\* row, the loop goes on to the next row, and a finished run has visited
\* every row of its range.
C23_FailedRowUnsetAndLoopContinues ==
    /\ [][FetchFailedInStep =>
             /\ output_written'
             /\ \A c \in out_columns :
                   read_csv(output')[acc.index + 1][c] = NaN
             /\ pc' = "rows"
             /\ acc'.index = acc.index + 1]_vars
    /\ []((script \in ExtractScripts /\ pc = "exit") => Visited = SliceRows)

C23_Witness ==
    /\ script \in ExtractScripts
    /\ pc = "exit"
    /\ \E k \in 1..Len(acc.log) :
          /\ acc.log[k][2] = "failed"
          /\ \E m \in (k + 1)..Len(acc.log) :
                /\ acc.log[m][1] > acc.log[k][1]
                /\ acc.log[m][2] = "processed"
                /\ \E c \in out_columns :
                      output[acc.log[m][1] + 1][c] # Str(<<>>)

(***************************************************************************)
(* C29: row-level resume across runs                                       *)
(***************************************************************************)
\* C29: a row the first run fetched and saved is not fetched again by a
\* later run whose range contains it, and its fields in the output file
\* are unchanged, whatever the first attempt gave.
C29_AttemptedRowsNotFetchedAgain ==
    SecondRunDone =>
        \A i \in Range(first_output.acc.fetched) \cap SliceRows :
            /\ i \notin Range(acc.fetched)
            /\ output[i + 1] = first_output.rows[i + 1]

(***************************************************************************)
(* C27: the highest education of a parsed resume                           *)
(***************************************************************************)
\* the degree list of the last answer and the triple taken from it
LastDegrees == acc.parsed_data.degree

LastTriple ==
    <<acc.extracted.degree_name, acc.extracted.institution,
      acc.extracted.year>>

\* a row of extract_education has been fetched and its triple extracted
EducationExtracted == script = "extract_education" /\ acc.fetched # <<>>

\* the year of an entry, a missing or null year counting as 0
YearOrZero(entry) ==
    IF entry.year \in {Missing, PyNone} THEN 0 ELSE entry.year.s[1]

\* position of the first entry with the greatest year
Highest(entries) ==
    CHOOSE i \in 1..Len(entries) :
        /\ \A j \in 1..Len(entries) :
              YearOrZero(entries[j]) <= YearOrZero(entries[i])
        /\ \A j \in 1..(i - 1) :
              YearOrZero(entries[j]) < YearOrZero(entries[i])

\* (degree_name, institution, year) of an entry, '' for a key it lacks
TripleOf(entry) ==
    <<IF entry.degree_name = Missing THEN Str(<<>>) ELSE entry.degree_name,
      IF entry.institution = Missing THEN Str(<<>>) ELSE entry.institution,
      IF entry.year = Missing THEN Str(<<>>) ELSE entry.year>>

NoKeys(entry) ==
    entry.degree_name = Missing /\ entry.institution = Missing
        /\ entry.year = Missing

\* C27 as stated: for an absent or empty degree list the result is
\* (None, None, None); otherwise it is the (degree_name, institution, year)
\* of the first entry with the greatest year, a missing or null year
\* counting as 0.
C27_HighestEducationReturned ==
    EducationExtracted =>
        IF LastDegrees.k # "list" \/ LastDegrees.v = <<>>
        THEN LastTriple = <<PyNone, PyNone, PyNone>>
        ELSE LastTriple = TripleOf(LastDegrees.v[Highest(LastDegrees.v)])

\* C27 amended: for an absent, null or empty degree list the result is
\* (None, None, None); otherwise it is the (degree_name, institution, year)
\* of the first entry with the greatest year, a missing or null year
\* counting as 0, except that an entry without any key gives
\* (None, None, None); no entry has a greater year than the one returned.
C27_HighestEducationUnlessEmptyEntry ==
    EducationExtracted =>
        IF LastDegrees.k # "list" \/ LastDegrees.v = <<>>
        THEN LastTriple = <<PyNone, PyNone, PyNone>>
        ELSE LET best == LastDegrees.v[Highest(LastDegrees.v)]
             IN  /\ LastTriple = IF NoKeys(best) THEN <<PyNone, PyNone, PyNone>>
                                 ELSE TripleOf(best)
                 /\ \A j \in 1..Len(LastDegrees.v) :
                       YearOrZero(LastDegrees.v[j]) <= YearOrZero(best)

C27_Witness ==
    /\ EducationExtracted
    /\ LastDegrees.k = "list"
    /\ Len(LastDegrees.v) = 2
    /\ LastDegrees.v[1].year = PyInt(2021)
    /\ LastDegrees.v[2].year = PyInt(2021)
    /\ LastDegrees.v[1].degree_name = Str(<<"B">>)
    /\ LastDegrees.v[2].degree_name = Str(<<"M">>)
    /\ LastTriple = <<Str(<<"B">>), Str(<<"X">>), PyInt(2021)>>

(***************************************************************************)
(* C30: from a parsed resume to the importer's skill names                 *)
(***************************************************************************)
\* a row of extract_skill has been fetched and its skills string built
SkillsExtracted == script = "extract_skill" /\ acc.fetched # <<>>

\* the names of the skills section and of the project technologies of the
\* last answer
ResumeNames ==
    LET listed(value) == IF value.k = "list" THEN Range(value.v) ELSE {}
    IN  listed(acc.parsed_data.skill) \cup
        UNION {listed(proj.technologies_used) :
                  proj \in listed(acc.parsed_data.projects)}

\* a name without its punctuation, in lower case, trimmed
Normalised(name) ==
    strip(lower(SelectSeq(name, LAMBDA c : c \in {"A", "a", "b", " "})))

\* the importer's names for the string: split on ',', trim, drop the empty
\* pieces, lower-case
ImportedNames ==
    LET names == skill_names(acc.extracted.skills.s)
    IN  [i \in 1..Len(names) |-> lower(names[i])]

\* C30: the importer's tokenisation of the string extract_skills returned
\* for a parsed resume gives, as a set, exactly the non-empty normalised
\* names of the resume's skills and project technologies, and gives no name
\* twice.
C30_ExtractThenImportRoundTrip ==
    SkillsExtracted =>
        /\ Range(ImportedNames) =
              {Normalised(name) : name \in ResumeNames} \ {<<>>}
        /\ \A i, j \in 1..Len(ImportedNames) :
              ImportedNames[i] = ImportedNames[j] => i = j

C30_Witness ==
    /\ SkillsExtracted
    /\ Len(ImportedNames) = 2
    /\ Cardinality(ResumeNames) = 3
    /\ \E name \in ResumeNames : "," \in Range(name) /\ "A" \in Range(name)

(***************************************************************************)
(* C24: the missing-graduation-year report                                 *)
(***************************************************************************)
\* the education entries of the store that are primary and have end_year
\* "", null or absent, each as <<document, position>>
MissingGradYear ==
    {at \in unwind(store) :
        LET entry == unwound(store, at)
        IN  /\ entry.is_primary = "True"
            /\ entry.end_year \in {"", "<null>", "<absent>"}}

TripleAt(at) ==
    <<unwound(store, at).college_id, unwound(store, at).college_name,
      unwound(store, at).is_college_registered>>

\* the rows are the report the claim describes
AsStated(rows) ==
    /\ Len(rows) = Cardinality({TripleAt(at) : at \in MissingGradYear})
    /\ \A at \in MissingGradYear :
          \E k \in 1..Len(rows) :
             /\ rows[k].college_id = TripleAt(at)[1]
             /\ rows[k].college_name = TripleAt(at)[2]
             /\ rows[k].is_registered =
                   (IF TripleAt(at)[3] = "True" THEN "YES" ELSE "NO")
             /\ rows[k].students_missing_grad_year =
                   Cardinality({other \in MissingGradYear :
                                   TripleAt(other) = TripleAt(at)})
    /\ \A k \in 1..(Len(rows) - 1) :
          rows[k].students_missing_grad_year >=
              rows[k + 1].students_missing_grad_year

\* C24: a finished run of college_with_missing_grad has written one row for
\* each distinct (college_id, college_name, is_college_registered) of the
\* primary entries without a graduation year, with the number of such
\* entries, "YES" or "NO" for the registration, in non-increasing order of
\* the count.
C24_OneRowPerCollegeTriple ==
    (script = "college_with_missing_grad" /\ pc = "exit") =>
        output_written /\ AsStated(output)

\* every list the pipeline of lines 13-55 can return is that report
C24_PipelineGivesStatedRows ==
    script = "college_with_missing_grad" =>
        /\ aggregate(store) # {}
        /\ \A rows \in aggregate(store) : AsStated(rows)

(***************************************************************************)
(* C25: one graduation-year count per student                              *)
(***************************************************************************)
\* C25: only the first primary entry of a record is classified, so the
\* graduation-year buckets of education_count (2026, 2027, special) and
\* the 2026/2027 graduate counts of skill_year never add up to more than
\* the number of students handed to the classifier.
C25_AtMostOneCountPerStudent ==
    /\ script = "education_count" =>
          acc.y2026 + acc.y2027 + acc.special_count <= Len(classified)
    /\ script = "skill_year" =>
          acc.grad_2026_count + acc.grad_2027_count <= Len(classified)

(***************************************************************************)
(* C26: the LinkedIn export                                                *)
(***************************************************************************)
\* the student has a LinkedIn URL (the key exists and holds neither null
\* nor the empty string) and an education_records list without entries
HasUrlButNoEducation(student) ==
    /\ student.linkedin_url \notin {"<absent>", "<null>", ""}
    /\ student.education_records.k = "list"
    /\ student.education_records.v = <<>>

\* C26: the rows linkedin.py has exported are the students that have a
\* LinkedIn URL and empty education records, each of them exactly once.
C26_ExportsExactlyUrlWithoutEducation ==
    (script = "linkedin" /\ pc = "exit") =>
        /\ \A k \in 1..Len(output) :
              HasUrlButNoEducation(store[output[k].student_id])
        /\ \A id \in 1..Len(store) :
              HasUrlButNoEducation(store[id]) =>
                  Cardinality({k \in 1..Len(output) :
                                  output[k].student_id = id}) = 1

\* what holds of the export: no row twice, every row has an education list
\* without entries and a URL that is not the empty string, and every
\* student with a URL and an empty education list is exported
C26_ExportedOnceAndComplete ==
    (script = "linkedin" /\ pc = "exit") =>
        /\ \A k \in 1..Len(output) :
              /\ store[output[k].student_id].linkedin_url \notin {"<absent>", ""}
              /\ store[output[k].student_id].education_records = List(<<>>)
        /\ \A id \in 1..Len(store) :
              HasUrlButNoEducation(store[id]) =>
                  Cardinality({k \in 1..Len(output) :
                                  output[k].student_id = id}) = 1
        /\ \A k, m \in 1..Len(output) :
              output[k].student_id = output[m].student_id => k = m

(***************************************************************************)
(* C28: resumes counted by no_skill_resume                                 *)
(***************************************************************************)
\* C28: in no_skill_resume.main total_with_resumes never exceeds
\* total_zero_skills, and no student has more than one row in the output
\* file.
C28_ResumesAtMostStudents ==
    script = "no_skill_resume" =>
        /\ acc.total_with_resumes <= acc.total_zero_skills
        /\ \A k, m \in 1..Len(output) : output[k] = output[m] => k = m

\* what holds of the counter: it is the number of rows written, one for
\* each resume document of the zero-skill students flushed so far
C28_CountsResumeDocuments ==
    script = "no_skill_resume" =>
        /\ acc.total_with_resumes = Len(output)
        /\ pc = "done" =>
              \A id \in 1..Len(store) :
                 Cardinality({k \in 1..Len(output) : output[k] = id}) =
                    IF zero_skills_query(store[id])
                    THEN Cardinality({k \in 1..Len(resumes) : resumes[k] = id})
                    ELSE 0
====
